---------------------------- MODULE Spec2Model ----------------------------
(***************************************************************************)
(* A model of lm-proxy (src/lm_proxy):                                     *)
(*   - the streaming response bridge  app.py  process_stream               *)
(*   - the routing engine             app.py  resolve_connection_and_model *)
(*   - the middleware chain           middleware.py  run_middleware_chain  *)
(*   - the static key check           api_key_check/in_config.py           *)
(*   - the request handler            app.py  chat_completions             *)
(*   - the key check by request       api_key_check/with_request.py        *)
(*   - header merging                 utils.py  merge_headers              *)
(*   - concurrent streams             app.py  process_stream, several calls*)
(*   - the connection wrapper         bootstrap.py  create_llm_wrapper     *)
(*   - environment substitution       utils.py                             *)
(*                                    replace_env_strings_recursive        *)
(* Each subsystem has its own initial predicate and next-state relation;   *)
(* the variables of the subsystems that are not running stay at their idle *)
(* values.                                                                 *)
(***************************************************************************)
EXTENDS Naturals, Sequences, FiniteSets, TLC

VARIABLES
    \* ---- process_stream (app.py:88-142) ----
    pc,          \* position of the async generator
    queue,       \* asyncio.Queue() of line 89: chunks put and not yet got
    stream_id,   \* line 90
    created,     \* line 91
    task_state,  \* the asyncio task of line 114: none / running / returned / raised
    task_exc,    \* the exception the task raised (PyNone when none)
    produced,    \* history: the chunks callback() was invoked with, in order
    frames,      \* history: what the generator has yielded, in order
    taken,       \* history: for every content frame, the loop that took its chunk
    at_yield,    \* whether the generator is suspended at a yield
    \* ---- resolve_connection_and_model (app.py:30-46) ----
    rpc,             \* position of the resolver
    routing,         \* config.routing: ordered (pattern, rule) pairs
    connections,     \* config.connections: the set of its keys
    external_model,  \* the requested model name
    ri,              \* index of the routing item the for loop is at
    result,          \* what the call returned or raised
    \* ---- run_middleware_chain (middleware.py:19-38) ----
    cpc,          \* position of the call
    middlewares,  \* the list passed in: what each middleware does with its continuation
    handler_kind, \* what the terminal handler does
    chain,        \* the composed callable: middleware indexes, outermost first, then handler
    bi,           \* index the for loop of line 35 is at
    cnext,        \* the callable being invoked: the rest of the chain
    cstack,       \* middlewares awaiting their continuation, outermost first
    raised_by,    \* where the exception in flight was raised (0 when none)
    ctx,          \* the RequestContext shared by all of them
    trace,        \* history: what ran, in order
    outcome,      \* how run_middleware_chain ended
    \* ---- check_api_key_in_config (api_key_check/in_config.py:5-18) ----
    kpc,          \* position of the call
    groups,       \* env.config.groups in insertion order: name and api_keys
    api_key,      \* the presented key, or None
    ki,           \* index the for loop of line 15 is at
    key_result,   \* what the call returned
    \* ---- chat_completions (app.py:145-177) ----
    hpc,          \* position of the handler
    stream,       \* request.stream
    upstream_calls, \* how many times the connection function was invoked
    \* ---- CheckAPIKeyWithRequest (api_key_check/with_request.py) ----
    use_cache,             \* the checker's fields
    response_as_user_info,
    group_field,
    cache,      \* the TTLCache: per key, the entry stored and not yet expired
    lkey,       \* per lookup, the key it was called with
    lpc,        \* per lookup, its position
    lres,       \* per lookup, what check_func produced, then what the call produced
    issued,     \* history: the lookup made its own request
    found,      \* history: the key had an entry in the cache when the lookup started
    served_by,  \* history: the lookup whose stored entry this one returned (0: none)
    \* ---- merge_headers (utils.py:170-191) ----
    mpc,              \* position of the call
    base_headers,     \* the arguments: a dict or None
    override_headers,
    filter_sensitive,
    merged,           \* the local variable result
    base0,            \* history: the arguments as they were passed
    override0,
    \* ---- create_llm_wrapper (bootstrap.py:44-83) ----
    wpc,            \* position: create, call, done
    extra_headers,  \* the config-level headers given to create_llm_wrapper
    wrapped,        \* whether create_llm_wrapper returned wrapper rather than llm_func
    kwargs,         \* the keyword arguments of the call of what it returned
    llm_kwargs,     \* the keyword arguments llm_func was called with
    \* ---- replace_env_strings_recursive (utils.py:98-114) ----
    epc,            \* position: first call, second call, done
    data,           \* the argument
    environ,        \* os.environ: pairs of name and value
    replaced,       \* what the call returned
    replaced_again, \* what the call on that result returned
    \* ---- several process_stream calls on one event loop (app.py:88-142) ----
    streams     \* per call, its locals and its history: pc, queue, stream_id, created,
                \* task_state, task_exc, produced, frames

streamVars ==
    <<pc, queue, stream_id, created, task_state, task_exc, produced, frames, taken, at_yield>>
routeVars == <<rpc, routing, connections, external_model, ri, result>>
chainVars ==
    <<cpc, middlewares, handler_kind, chain, bi, cnext, cstack, raised_by, ctx, trace, outcome>>
keyVars == <<kpc, groups, api_key, ki, key_result>>
handlerVars == <<hpc, stream, upstream_calls>>
authVars ==
    <<use_cache, response_as_user_info, group_field, cache, lkey, lpc, lres, issued, found,
      served_by>>
mergeVars == <<mpc, base_headers, override_headers, filter_sensitive, merged, base0, override0>>
concVars == <<streams>>
wrapVars == <<wpc, extra_headers, wrapped, kwargs, llm_kwargs>>
envVars == <<epc, data, environ, replaced, replaced_again>>
vars ==
    <<streamVars, routeVars, chainVars, keyVars, handlerVars, authVars, mergeVars, concVars,
      wrapVars, envVars>>
\* what a step of one subsystem leaves alone
notStream ==
    <<routeVars, chainVars, keyVars, handlerVars, authVars, mergeVars, concVars,
      wrapVars, envVars>>
notRoute ==
    <<streamVars, chainVars, keyVars, handlerVars, authVars, mergeVars, concVars,
      wrapVars, envVars>>
notChain ==
    <<streamVars, routeVars, keyVars, handlerVars, authVars, mergeVars, concVars,
      wrapVars, envVars>>
notKey ==
    <<streamVars, routeVars, chainVars, handlerVars, authVars, mergeVars, concVars,
      wrapVars, envVars>>
notHandler ==
    <<streamVars, chainVars, keyVars, authVars, mergeVars, concVars,
      wrapVars, envVars>>
notAuth ==
    <<streamVars, routeVars, chainVars, keyVars, handlerVars, mergeVars, concVars,
      wrapVars, envVars>>
notMerge ==
    <<streamVars, routeVars, chainVars, keyVars, handlerVars, authVars, concVars,
      wrapVars, envVars>>
notConc ==
    <<streamVars, routeVars, chainVars, keyVars, handlerVars, authVars, mergeVars,
      wrapVars, envVars>>
notWrap ==
    <<streamVars, routeVars, chainVars, keyVars, handlerVars, authVars, mergeVars,
      concVars, envVars>>
notEnv ==
    <<streamVars, routeVars, chainVars, keyVars, handlerVars, authVars, mergeVars,
      concVars, wrapVars>>

(***************************************************************************)
(* Bounds of the model.                                                    *)
(***************************************************************************)
MaxChunks == 3
MaxRules == 2
MaxMiddlewares == 3
MaxGroups == 2
NumLookups == 2
NumStreams == 2
MaxDepth == 2
MaxChunksEach == 1

(***************************************************************************)
(* Python values: a value is known by its class name and by what str()     *)
(* makes of it.                                                            *)
(***************************************************************************)
PyNone == [type |-> "NoneType", str |-> "None"]
PyStr(s) == [type |-> "str", str |-> s]
PyDict(items) == [type |-> "dict", items |-> items]
\* the dict literal of line 138, {'message': str(e), 'type': type(e).__name__}
ErrorDict(e) ==
    [type |-> "dict",
     str |-> "{'message': '" \o e.str \o "', 'type': '" \o e.type \o "'}"]

\* a key the JSON object does not have
Absent == "<absent>"
NoError == [message |-> Absent, type |-> Absent]

\* what the upstream function may deliver and raise
Chunks == {PyStr("a"), PyStr("b")}
Exceptions == {[type |-> "RuntimeError", str |-> "boom"],
               [type |-> "TimeoutError", str |-> ""]}
StreamIds == {"chatcmpl-01", "chatcmpl-02"}
Timestamps == {1700000000, 1700000001}

(***************************************************************************)
(* make_chunk (app.py:97-112).  The frame "data: " + json.dumps(obj) is    *)
(* the record [sse |-> "json", obj |-> obj].                               *)
(***************************************************************************)
\* make_chunk as the closure of the call whose stream_id and created are id, ts
make_chunk_of(id, ts, delta, content, finish_reason, error) ==
    LET delta1 == IF delta = PyNone
                  THEN (IF content # PyNone THEN {<<"content", content.str>>} ELSE {})
                  ELSE delta.items
        finish1 == IF error # PyNone /\ finish_reason = PyNone
                   THEN PyStr("error")
                   ELSE finish_reason
    IN [sse |-> "json",
        obj |-> [id |-> id,
                 object |-> "chat.completion.chunk",
                 created |-> ts,
                 index |-> 0,
                 delta |-> delta1,
                 error |-> IF error # PyNone
                           THEN [message |-> error.str, type |-> error.type]
                           ELSE NoError,
                 finish_reason |-> IF finish1 # PyNone THEN finish1.str ELSE Absent]]
make_chunk(delta, content, finish_reason, error) ==
    make_chunk_of(stream_id, created, delta, content, finish_reason, error)

\* line 142
DoneFrame == [sse |-> "[DONE]"]


(***************************************************************************)
(* process_stream: the upstream task (producer).  It runs whenever the     *)
(* generator is suspended, which is at every yield and every await.        *)
(***************************************************************************)
\* callback(chunk), lines 94-95: queue.put on an unbounded queue never waits
Callback(chunk) ==
    /\ task_state = "running"
    /\ Len(produced) < MaxChunks
    /\ queue' = Append(queue, chunk)
    /\ produced' = Append(produced, chunk)
    /\ UNCHANGED <<pc, stream_id, created, task_state, task_exc, frames, taken, at_yield>>
    /\ UNCHANGED notStream

\* async_llm_func returns: task.done() becomes true
TaskReturn ==
    /\ task_state = "running"
    /\ task_state' = "returned"
    /\ UNCHANGED <<pc, queue, stream_id, created, task_exc, produced, frames, taken, at_yield>>
    /\ UNCHANGED notStream

\* async_llm_func raises e: task.done() becomes true, the task holds e
TaskRaise(e) ==
    /\ task_state = "running"
    /\ task_state' = "raised"
    /\ task_exc' = e
    /\ UNCHANGED <<pc, queue, stream_id, created, produced, frames, taken, at_yield>>
    /\ UNCHANGED notStream

(***************************************************************************)
(* process_stream: the async generator (consumer).                         *)
(***************************************************************************)
task_done == task_state \in {"returned", "raised"}

\* lines 89-120, run by the first __anext__ without suspending: the queue,
\* the id, the timestamp, the task, and the role frame
Start(id, now) ==
    /\ pc = "start"
    /\ queue' = <<>>
    /\ stream_id' = id
    /\ created' = now
    /\ task_state' = "running"
    /\ frames' = <<make_chunk(PyDict({<<"role", "assistant">>}), PyNone, PyNone, PyNone)'>>
    /\ pc' = "loop"
    /\ UNCHANGED <<task_exc, produced, taken>>
    /\ at_yield' = TRUE
    /\ UNCHANGED notStream

\* line 122, while not task.done()
LoopTest ==
    /\ pc = "loop"
    /\ pc' = IF task_done THEN "drain" ELSE "wait"
    /\ UNCHANGED <<queue, stream_id, created, task_state, task_exc, produced, frames, taken>>
    /\ at_yield' = FALSE
    /\ UNCHANGED notStream

\* a LIFO queue in place of the FIFO one: get() returns the newest chunk
PollGet_Lifo ==
    /\ pc = "wait"
    /\ queue # <<>>
    /\ frames' = Append(frames, make_chunk(PyNone, queue[Len(queue)], PyNone, PyNone))
    /\ queue' = SubSeq(queue, 1, Len(queue) - 1)
    /\ taken' = Append(taken, "poll")
    /\ pc' = "loop"
    /\ UNCHANGED <<stream_id, created, task_state, task_exc, produced>>
    /\ at_yield' = TRUE
    /\ UNCHANGED notStream

\* lines 124-125: queue.get() delivered a chunk within the timeout
PollGet ==
    /\ pc = "wait"
    /\ queue # <<>>
    /\ frames' = Append(frames, make_chunk(PyNone, Head(queue), PyNone, PyNone))
    /\ queue' = Tail(queue)
    /\ taken' = Append(taken, "poll")
    /\ pc' = "loop"
    /\ UNCHANGED <<stream_id, created, task_state, task_exc, produced>>
    /\ at_yield' = TRUE
    /\ UNCHANGED notStream

\* lines 126-127: the timeout passed with the queue empty
PollTimeout ==
    /\ pc = "wait"
    /\ queue = <<>>
    /\ pc' = "loop"
    /\ UNCHANGED <<queue, stream_id, created, task_state, task_exc, produced, frames, taken>>
    /\ at_yield' = FALSE
    /\ UNCHANGED notStream

\* lines 130-132, one iteration of the drain loop
DrainGet ==
    /\ pc = "drain"
    /\ queue # <<>>
    /\ frames' = Append(frames, make_chunk(PyNone, Head(queue), PyNone, PyNone))
    /\ queue' = Tail(queue)
    /\ taken' = Append(taken, "drain")
    /\ UNCHANGED <<pc, stream_id, created, task_state, task_exc, produced>>
    /\ at_yield' = TRUE
    /\ UNCHANGED notStream

\* the drain loop left out: the finally block begins with chunks still queued
DrainEnd_NoDrain ==
    /\ pc = "drain"
    /\ pc' = "finally"
    /\ UNCHANGED <<queue, stream_id, created, task_state, task_exc, produced, frames, taken>>
    /\ at_yield' = FALSE
    /\ UNCHANGED notStream

\* line 130, queue.empty(): the drain loop ends and the finally block begins
DrainEnd ==
    /\ pc = "drain"
    /\ queue = <<>>
    /\ pc' = "finally"
    /\ UNCHANGED <<queue, stream_id, created, task_state, task_exc, produced, frames, taken>>
    /\ at_yield' = FALSE
    /\ UNCHANGED notStream

\* no except clause: the task's exception leaves the generator
AwaitTask_Propagate ==
    /\ pc = "finally"
    /\ task_done
    /\ pc' = IF task_state = "raised" THEN "end" ELSE "stop"
    /\ UNCHANGED <<queue, stream_id, created, task_state, task_exc, produced, frames, taken>>
    /\ at_yield' = FALSE
    /\ UNCHANGED notStream

\* lines 134-138: await task; an Exception becomes the error frame, and the
\* generator goes on below the try statement
AwaitTask ==
    /\ pc = "finally"
    /\ task_done
    /\ frames' = IF task_state = "raised"
                 THEN Append(frames, make_chunk(PyNone, PyNone, PyNone, ErrorDict(task_exc)))
                 ELSE frames
    /\ pc' = "stop"
    /\ UNCHANGED <<queue, stream_id, created, task_state, task_exc, produced, taken>>
    /\ at_yield' = (task_state = "raised")
    /\ UNCHANGED notStream

\* the final frame without its finish_reason
YieldStop_NoReason ==
    /\ pc = "stop"
    /\ frames' = Append(frames, make_chunk(PyNone, PyNone, PyNone, PyNone))
    /\ pc' = "sentinel"
    /\ UNCHANGED <<queue, stream_id, created, task_state, task_exc, produced, taken>>
    /\ at_yield' = TRUE
    /\ UNCHANGED notStream

\* line 141
YieldStop ==
    /\ pc = "stop"
    /\ frames' = Append(frames, make_chunk(PyNone, PyNone, PyStr("stop"), PyNone))
    /\ pc' = "sentinel"
    /\ UNCHANGED <<queue, stream_id, created, task_state, task_exc, produced, taken>>
    /\ at_yield' = TRUE
    /\ UNCHANGED notStream

\* line 142, after which the generator is exhausted
YieldDone ==
    /\ pc = "sentinel"
    /\ frames' = Append(frames, DoneFrame)
    /\ pc' = "end"
    /\ UNCHANGED <<queue, stream_id, created, task_state, task_exc, produced, taken>>
    /\ at_yield' = TRUE
    /\ UNCHANGED notStream

\* aclose() by the response writer while the generator is suspended at a
\* yield: GeneratorExit is raised at that yield.  At the yields of lines 120,
\* 125 and 132 it enters the finally block, whose await task waits for the
\* upstream task (nothing cancels it); at the yields of lines 138 and 141 it
\* leaves the generator.
Close ==
    /\ at_yield
    /\ pc \in {"loop", "drain", "stop", "sentinel"}
    /\ pc' = IF pc \in {"loop", "drain"} THEN "closing" ELSE "closed"
    /\ at_yield' = FALSE
    /\ UNCHANGED <<queue, stream_id, created, task_state, task_exc, produced, frames, taken>>
    /\ UNCHANGED notStream

\* lines 135-138 while GeneratorExit is being handled: the task returned and
\* GeneratorExit goes on out of the generator, or the task raised and line 138
\* yields, which makes aclose() raise RuntimeError("async generator ignored
\* GeneratorExit")
CloseAwait ==
    /\ pc = "closing"
    /\ task_done
    /\ pc' = IF task_state = "raised" THEN "close_failed" ELSE "closed"
    /\ UNCHANGED <<queue, stream_id, created, task_state, task_exc, produced, frames, taken,
                   at_yield>>
    /\ UNCHANGED notStream

Producer ==
    \/ \E chunk \in Chunks : Callback(chunk)
    \/ TaskReturn
    \/ \E e \in Exceptions : TaskRaise(e)

Consumer ==
    \/ \E id \in StreamIds, now \in Timestamps : Start(id, now)
    \/ LoopTest
    \/ PollGet
    \/ PollTimeout
    \/ DrainGet
    \/ DrainEnd
    \/ AwaitTask
    \/ YieldStop
    \/ YieldDone

\* RequestContext (base_types.py:35-54): the fields the chain's parties use
EmptyCtx == [response |-> PyNone, error |-> PyNone]
\* no call of run_middleware_chain is in progress
ChainIdle ==
    /\ cpc = "idle"
    /\ middlewares = <<>>
    /\ handler_kind = "respond"
    /\ chain = <<>>
    /\ bi = 0
    /\ cnext = <<>>
    /\ cstack = <<>>
    /\ raised_by = 0
    /\ ctx = EmptyCtx
    /\ trace = <<>>
    /\ outcome = "none"

\* no call of check_api_key_in_config is in progress
KeyIdle ==
    /\ kpc = "idle"
    /\ groups = <<>>
    /\ api_key = PyNone
    /\ ki = 0
    /\ key_result = PyNone

\* no request is being handled
HandlerIdle ==
    /\ hpc = "idle"
    /\ stream = FALSE
    /\ upstream_calls = 0

\* no CheckAPIKeyWithRequest is in use
AuthIdle ==
    /\ use_cache = FALSE
    /\ response_as_user_info = FALSE
    /\ group_field = PyNone
    /\ cache = <<>>
    /\ lkey = <<>>
    /\ lpc = <<>>
    /\ lres = <<>>
    /\ issued = <<>>
    /\ found = <<>>
    /\ served_by = <<>>

\* no call of merge_headers is in progress
MergeIdle ==
    /\ mpc = "idle"
    /\ base_headers = PyNone
    /\ override_headers = PyNone
    /\ filter_sensitive = FALSE
    /\ merged = PyNone
    /\ base0 = PyNone
    /\ override0 = PyNone

\* no concurrent process_stream calls are in progress
ConcIdle == streams = <<>>

\* no wrapper is being made or called
WrapIdle ==
    /\ wpc = "idle"
    /\ extra_headers = PyNone
    /\ wrapped = FALSE
    /\ kwargs = PyNone
    /\ llm_kwargs = PyNone

\* no call of replace_env_strings_recursive is in progress
EnvIdle ==
    /\ epc = "idle"
    /\ data = PyNone
    /\ environ = {}
    /\ replaced = PyNone
    /\ replaced_again = PyNone

StreamIdle ==
    /\ pc = "idle"
    /\ queue = <<>>
    /\ stream_id = Absent
    /\ created = 0
    /\ task_state = "none"
    /\ task_exc = PyNone
    /\ produced = <<>>
    /\ frames = <<>>
    /\ taken = <<>>
    /\ at_yield = FALSE

RouteIdle ==
    /\ rpc = "idle"
    /\ routing = <<>>
    /\ connections = {}
    /\ external_model = <<>>
    /\ ri = 0
    /\ result = [kind |-> "none"]

\* process_stream has been called and not yet iterated
InitStream ==
    /\ pc = "start"
    /\ queue = <<>>
    /\ stream_id = Absent
    /\ created = 0
    /\ task_state = "none"
    /\ task_exc = PyNone
    /\ produced = <<>>
    /\ frames = <<>>
    /\ taken = <<>>
    /\ at_yield = FALSE
    /\ RouteIdle
    /\ ChainIdle
    /\ KeyIdle
    /\ HandlerIdle
    /\ AuthIdle
    /\ MergeIdle
    /\ ConcIdle
    /\ WrapIdle
    /\ EnvIdle

NextStream == Producer \/ Consumer

SpecStream == InitStream /\ [][NextStream]_vars

\* process_stream with a consumer that may abandon it
NextStreamClose == Producer \/ Consumer \/ Close \/ CloseAwait

SpecStreamClose == InitStream /\ [][NextStreamClose]_vars

\* The event loop runs the generator whenever it can take a step: the
\* response writer keeps asking for the next frame, and the 0.1 s timeout of
\* line 124 always fires.
FairSpecStream == SpecStream /\ WF_vars(Consumer)


(***************************************************************************)
(* resolve_connection_and_model (app.py:30-46).  Strings that the code     *)
(* matches or splits are sequences of characters.                          *)
(***************************************************************************)
\* the model names a request may carry
ModelNames == {<<"g", "4">>, <<"G", "4">>, <<"g", "4", "t">>}
\* keys of config.routing
Patterns == {<<"*">>, <<"g", "*">>, <<"g", "4">>, <<"g", "?">>,
             <<"[", "!", "x", "]", "4">>, <<"4">>}
\* values of config.routing
Rules == {<<"o", ".", "t">>, <<"o", ".", "*">>, <<"m", ".", "t">>,
          <<"m", ".", "*">>, <<"p", ".", "t", ".", "1">>, <<"o">>}
\* the key sets config.connections may have
ConnectionSets == {{<<"o">>}, {<<"o">>, <<"p">>}}

\* config.routing is a dict: its keys are distinct, its items keep their order
RoutingTables ==
    {r \in UNION {[1..n -> Patterns \X Rules] : n \in 0..MaxRules} :
        \A i, j \in 1..Len(r) : i # j => r[i][1] # r[j][1]}

\* in pattern p, which starts with "[", the index of the "]" that closes the
\* character class, or Len(p) + 1 when none does (fnmatch.translate)
ClassEnd(p) ==
    LET n == Len(p)
        j1 == IF 2 <= n /\ p[2] = "!" THEN 3 ELSE 2
        j2 == IF j1 <= n /\ p[j1] = "]" THEN j1 + 1 ELSE j1
        closing == {k \in j2..n : p[k] = "]"}
    IN IF closing = {} THEN n + 1 ELSE CHOOSE k \in closing : \A m \in closing : k <= m

\* the regular expression fnmatch.translate builds from p, matched against
\* the whole of s: * is any run, ? any one character, [seq] and [!seq] a
\* character class, a "[" that nothing closes and any other character itself
RECURSIVE GlobMatch(_, _)
GlobMatch(s, p) ==
    IF p = <<>> THEN s = <<>>
    ELSE CASE Head(p) = "*" ->
                \E k \in 0..Len(s) : GlobMatch(SubSeq(s, k + 1, Len(s)), Tail(p))
           [] Head(p) = "?" ->
                s # <<>> /\ GlobMatch(Tail(s), Tail(p))
           [] Head(p) = "[" /\ ClassEnd(p) <= Len(p) ->
                LET j == ClassEnd(p)
                    stuff == SubSeq(p, 2, j - 1)
                    negated == stuff[1] = "!"
                    members == {stuff[k] : k \in (IF negated THEN 2 ELSE 1)..Len(stuff)}
                IN /\ s # <<>>
                   /\ (Head(s) \in members) # negated
                   /\ GlobMatch(Tail(s), SubSeq(p, j + 1, Len(p)))
           [] OTHER ->
                s # <<>> /\ Head(s) = Head(p) /\ GlobMatch(Tail(s), Tail(p))

Lower(c) == CASE c = "G" -> "g" [] c = "X" -> "x" [] c = "T" -> "t" [] OTHER -> c
LowerAll(s) == [i \in 1..Len(s) |-> Lower(s[i])]

\* fnmatch.fnmatch on a case-insensitive platform: both sides are case-folded
fnmatch_normcase(name, pat) == GlobMatch(LowerAll(name), LowerAll(pat))

\* line 32, fnmatch.fnmatchcase(external_model, model_match)
fnmatchcase(name, pat) == GlobMatch(name, pat)

\* rule.split(sep, 1)
Split1(rule, sep) ==
    LET at == {k \in 1..Len(rule) : rule[k] = sep}
    IN IF at = {} THEN <<rule>>
       ELSE LET k == CHOOSE k \in at : \A m \in at : k <= m
            IN <<SubSeq(rule, 1, k - 1), SubSeq(rule, k + 1, Len(rule))>>

Return(connection_name, resolved_model) ==
    [kind |-> "return", connection |-> connection_name, model |-> resolved_model]
Raise(exc, what, arg) ==
    [kind |-> "raise", exc |-> exc, what |-> what, arg |-> arg]

\* "*" is not replaced by the requested name
OnMatch_StarLiteral(rule) ==
    LET parts == Split1(rule, ".")
    IN IF Len(parts) # 2
       THEN Raise("ValueError", "not enough values to unpack", rule)
       ELSE IF parts[1] \notin connections
       THEN Raise("ValueError", "Routing selected unknown connection", parts[1])
       ELSE IF parts[2] = <<"*">>
       THEN Return(parts[1], parts[2])
       ELSE Raise("NameError", "name 'rhs_model' is not defined", <<>>)

\* lines 33-41, the body of the if: rhs_model of line 40 is bound nowhere, so
\* evaluating it raises NameError
OnMatch(rule) ==
    LET parts == Split1(rule, ".")
    IN IF Len(parts) # 2
       THEN Raise("ValueError", "not enough values to unpack", rule)
       ELSE IF parts[1] \notin connections
       THEN Raise("ValueError", "Routing selected unknown connection", parts[1])
       ELSE IF parts[2] = <<"*">>
       THEN Return(parts[1], external_model)
       ELSE Raise("NameError", "name 'rhs_model' is not defined", <<>>)

\* lines 31-32: the pattern of this item does not match, the loop goes on
ResolveSkip ==
    /\ rpc = "iter"
    /\ ri <= Len(routing)
    /\ ~fnmatchcase(external_model, routing[ri][1])
    /\ ri' = ri + 1
    /\ UNCHANGED <<rpc, routing, connections, external_model, result>>
    /\ UNCHANGED notRoute

\* an unknown connection skips the rule instead of raising
ResolveRule_FallThrough ==
    /\ rpc = "iter"
    /\ ri <= Len(routing)
    /\ fnmatchcase(external_model, routing[ri][1])
    /\ IF OnMatch(routing[ri][2]).kind = "raise"
          /\ OnMatch(routing[ri][2]).what = "Routing selected unknown connection"
       THEN ri' = ri + 1 /\ UNCHANGED <<rpc, result>>
       ELSE result' = OnMatch(routing[ri][2]) /\ rpc' = "done" /\ UNCHANGED ri
    /\ UNCHANGED <<routing, connections, external_model>>
    /\ UNCHANGED notRoute

\* lines 32-41: the pattern of this item matches, the call ends here
ResolveRule ==
    /\ rpc = "iter"
    /\ ri <= Len(routing)
    /\ fnmatchcase(external_model, routing[ri][1])
    /\ result' = OnMatch(routing[ri][2])
    /\ rpc' = "done"
    /\ UNCHANGED <<routing, connections, external_model, ri>>
    /\ UNCHANGED notRoute

\* lines 43-46: the loop ran out of items
ResolveNoRoute ==
    /\ rpc = "iter"
    /\ ri > Len(routing)
    /\ result' = Raise("ValueError", "No routing rule matched model", external_model)
    /\ rpc' = "done"
    /\ UNCHANGED <<routing, connections, external_model, ri>>
    /\ UNCHANGED notRoute

\* resolve_connection_and_model(config, external_model) has been called
InitRoute ==
    /\ rpc = "iter"
    /\ routing \in RoutingTables
    /\ connections \in ConnectionSets
    /\ external_model \in ModelNames
    /\ ri = 1
    /\ result = [kind |-> "none"]
    /\ StreamIdle
    /\ ChainIdle
    /\ KeyIdle
    /\ HandlerIdle
    /\ AuthIdle
    /\ MergeIdle
    /\ ConcIdle
    /\ WrapIdle
    /\ EnvIdle

NextRoute == ResolveSkip \/ ResolveRule \/ ResolveNoRoute

SpecRoute == InitRoute /\ [][NextRoute]_vars

(***************************************************************************)
(* run_middleware_chain (middleware.py:19-38).  A middleware is a callable *)
(* (ctx, next_handler); what it does with next_handler is its own choice:  *)
(*   pass        await next_handler(), nothing else (BaseMiddleware)       *)
(*   log         try: await next_handler()  finally: read ctx              *)
(*   catch       try: await next_handler()  except Exception: pass         *)
(*   raise_post  await next_handler(), then raise                          *)
(*   block       return without calling next_handler                       *)
(*   raise_pre   raise without calling next_handler                        *)
(* The terminal handler either sets ctx.response and returns, or sets      *)
(* ctx.error and raises.                                                   *)
(***************************************************************************)
MiddlewareKinds == {"pass", "log", "catch", "raise_post", "block", "raise_pre"}
HandlerKinds == {"respond", "fail"}
CallsNext(kind) == kind \in {"pass", "log", "catch", "raise_post"}

LLMResponse == [type |-> "LLMResponse", str |-> "hello"]
HandlerError == [type |-> "RuntimeError", str |-> "upstream failed"]
\* ctx after the terminal handler ran
HandlerCtx ==
    IF handler_kind = "respond"
    THEN [ctx EXCEPT !.response = LLMResponse]
    ELSE [ctx EXCEPT !.error = HandlerError]

Ev(ev, mw, seen) == [ev |-> ev, mw |-> mw, seen |-> seen]
Top == cstack[Len(cstack)]
Pop == SubSeq(cstack, 1, Len(cstack) - 1)
\* the handler is at index Len(middlewares) + 1
HandlerIndex == Len(middlewares) + 1

\* lines 24-26: no middlewares, the handler is awaited directly
RunDirect ==
    /\ cpc = "begin"
    /\ middlewares = <<>>
    /\ ctx' = HandlerCtx
    /\ trace' = Append(trace, Ev("handler", HandlerIndex, ctx))
    /\ outcome' = IF handler_kind = "respond" THEN "returned" ELSE "raised"
    /\ raised_by' = IF handler_kind = "respond" THEN 0 ELSE HandlerIndex
    /\ cpc' = "done"
    /\ UNCHANGED <<middlewares, handler_kind, chain, bi, cnext, cstack>>
    /\ UNCHANGED notChain

\* the loop run over middlewares instead of reversed(middlewares)
Wrap_Forward ==
    /\ cpc = "begin"
    /\ middlewares # <<>>
    /\ bi >= 1
    /\ chain' = <<Len(middlewares) + 1 - bi>> \o chain
    /\ bi' = bi - 1
    /\ UNCHANGED <<cpc, middlewares, handler_kind, cnext, cstack, raised_by, ctx, trace, outcome>>
    /\ UNCHANGED notChain

\* each middleware is wrapped twice
Wrap_Twice ==
    /\ cpc = "begin"
    /\ middlewares # <<>>
    /\ bi >= 1
    /\ chain' = <<bi, bi>> \o chain
    /\ bi' = bi - 1
    /\ UNCHANGED <<cpc, middlewares, handler_kind, cnext, cstack, raised_by, ctx, trace, outcome>>
    /\ UNCHANGED notChain

\* lines 34-36, one iteration: chain = wrap(mw, chain), mw taken from the end
Wrap ==
    /\ cpc = "begin"
    /\ middlewares # <<>>
    /\ bi >= 1
    /\ chain' = <<bi>> \o chain
    /\ bi' = bi - 1
    /\ UNCHANGED <<cpc, middlewares, handler_kind, cnext, cstack, raised_by, ctx, trace, outcome>>
    /\ UNCHANGED notChain

\* line 38, await chain()
Invoke ==
    /\ cpc = "begin"
    /\ middlewares # <<>>
    /\ bi = 0
    /\ cnext' = chain
    /\ cpc' = "call"
    /\ UNCHANGED <<middlewares, handler_kind, chain, bi, cstack, raised_by, ctx, trace, outcome>>
    /\ UNCHANGED notChain

\* lines 29-30, wrapped(): mw(ctx, next_fn) runs up to its await next_handler()
EnterAndCall ==
    /\ cpc = "call"
    /\ cnext # <<>>
    /\ CallsNext(middlewares[Head(cnext)])
    /\ trace' = Append(trace, Ev("pre", Head(cnext), ctx))
    /\ cstack' = Append(cstack, Head(cnext))
    /\ cnext' = Tail(cnext)
    /\ UNCHANGED <<cpc, middlewares, handler_kind, chain, bi, raised_by, ctx, outcome>>
    /\ UNCHANGED notChain

\* every wrapped callable runs the next one whatever its middleware did
EnterBlock_Continue ==
    /\ cpc = "call"
    /\ cnext # <<>>
    /\ middlewares[Head(cnext)] = "block"
    /\ trace' = Append(trace, Ev("pre", Head(cnext), ctx))
    /\ cstack' = Append(cstack, Head(cnext))
    /\ cnext' = Tail(cnext)
    /\ UNCHANGED <<cpc, middlewares, handler_kind, chain, bi, raised_by, ctx, outcome>>
    /\ UNCHANGED notChain

\* lines 29-30, wrapped(): mw(ctx, next_fn) returns without calling next_fn
EnterBlock ==
    /\ cpc = "call"
    /\ cnext # <<>>
    /\ middlewares[Head(cnext)] = "block"
    /\ trace' = Append(trace, Ev("pre", Head(cnext), ctx))
    /\ cpc' = "ret"
    /\ UNCHANGED <<middlewares, handler_kind, chain, bi, cnext, cstack, raised_by, ctx, outcome>>
    /\ UNCHANGED notChain

\* lines 29-30, wrapped(): mw(ctx, next_fn) raises without calling next_fn
EnterRaise ==
    /\ cpc = "call"
    /\ cnext # <<>>
    /\ middlewares[Head(cnext)] = "raise_pre"
    /\ trace' = Append(trace, Ev("pre", Head(cnext), ctx))
    /\ raised_by' = Head(cnext)
    /\ cpc' = "exc"
    /\ UNCHANGED <<middlewares, handler_kind, chain, bi, cnext, cstack, ctx, outcome>>
    /\ UNCHANGED notChain

\* the innermost next_fn is handler itself (line 34)
RunHandler ==
    /\ cpc = "call"
    /\ cnext = <<>>
    /\ ctx' = HandlerCtx
    /\ trace' = Append(trace, Ev("handler", HandlerIndex, ctx))
    /\ raised_by' = IF handler_kind = "respond" THEN 0 ELSE HandlerIndex
    /\ cpc' = IF handler_kind = "respond" THEN "ret" ELSE "exc"
    /\ UNCHANGED <<middlewares, handler_kind, chain, bi, cnext, cstack, outcome>>
    /\ UNCHANGED notChain

\* each middleware is handed its own copy of ctx, as it was on entry
ReturnTo_StaleCtx ==
    /\ cpc = "ret"
    /\ cstack # <<>>
    /\ trace' = Append(trace, Ev("post", Top, EmptyCtx))
    /\ cstack' = Pop
    /\ raised_by' = IF middlewares[Top] = "raise_post" THEN Top ELSE 0
    /\ cpc' = IF middlewares[Top] = "raise_post" THEN "exc" ELSE "ret"
    /\ UNCHANGED <<middlewares, handler_kind, chain, bi, cnext, ctx, outcome>>
    /\ UNCHANGED notChain

\* line 30 of the callee returned: await next_handler() of the middleware on
\* top returns and the code after it runs
ReturnTo ==
    /\ cpc = "ret"
    /\ cstack # <<>>
    /\ trace' = Append(trace, Ev("post", Top, ctx))
    /\ cstack' = Pop
    /\ raised_by' = IF middlewares[Top] = "raise_post" THEN Top ELSE 0
    /\ cpc' = IF middlewares[Top] = "raise_post" THEN "exc" ELSE "ret"
    /\ UNCHANGED <<middlewares, handler_kind, chain, bi, cnext, ctx, outcome>>
    /\ UNCHANGED notChain

\* wrapped() swallows what its middleware's continuation raised
UnwindTo_Swallow ==
    /\ cpc = "exc"
    /\ cstack # <<>>
    /\ trace' = Append(trace, Ev("post", Top, ctx))
    /\ cstack' = Pop
    /\ raised_by' = 0
    /\ cpc' = "ret"
    /\ UNCHANGED <<middlewares, handler_kind, chain, bi, cnext, ctx, outcome>>
    /\ UNCHANGED notChain

\* line 30 of the callee raised: await next_handler() of the middleware on top
\* raises; a finally block of it runs, an except block of it ends the failure
UnwindTo ==
    /\ cpc = "exc"
    /\ cstack # <<>>
    /\ trace' = IF middlewares[Top] = "log"
                THEN trace \o <<Ev("exc", Top, raised_by), Ev("post", Top, ctx)>>
                ELSE Append(trace, Ev("exc", Top, raised_by))
    /\ cstack' = Pop
    /\ raised_by' = IF middlewares[Top] = "catch" THEN 0 ELSE raised_by
    /\ cpc' = IF middlewares[Top] = "catch" THEN "ret" ELSE "exc"
    /\ UNCHANGED <<middlewares, handler_kind, chain, bi, cnext, ctx, outcome>>
    /\ UNCHANGED notChain

\* line 38 is done: run_middleware_chain returns, or raises what chain() raised
Finish ==
    /\ cpc \in {"ret", "exc"}
    /\ cstack = <<>>
    /\ outcome' = IF cpc = "ret" THEN "returned" ELSE "raised"
    /\ cpc' = "done"
    /\ UNCHANGED <<middlewares, handler_kind, chain, bi, cnext, cstack, raised_by, ctx, trace>>
    /\ UNCHANGED notChain

\* run_middleware_chain(middlewares, ctx, handler) has been called
InitChain ==
    /\ cpc = "begin"
    /\ middlewares \in UNION {[1..n -> MiddlewareKinds] : n \in 0..MaxMiddlewares}
    /\ handler_kind \in HandlerKinds
    /\ chain = <<>>
    /\ bi = Len(middlewares)
    /\ cnext = <<>>
    /\ cstack = <<>>
    /\ raised_by = 0
    /\ ctx = EmptyCtx
    /\ trace = <<>>
    /\ outcome = "none"
    /\ StreamIdle
    /\ RouteIdle
    /\ KeyIdle
    /\ HandlerIdle
    /\ AuthIdle
    /\ MergeIdle
    /\ ConcIdle
    /\ WrapIdle
    /\ EnvIdle

NextChain ==
    \/ RunDirect
    \/ Wrap
    \/ Invoke
    \/ EnterAndCall
    \/ EnterBlock
    \/ EnterRaise
    \/ RunHandler
    \/ ReturnTo
    \/ UnwindTo
    \/ Finish

SpecChain == InitChain /\ [][NextChain]_vars

(***************************************************************************)
(* check_api_key_in_config (api_key_check/in_config.py:5-18): a scan of    *)
(* env.config.groups, a dict, in insertion order.                          *)
(***************************************************************************)
GroupNames == {"g1", "g2", "g3"}
ApiKeys == {PyStr("k1"), PyStr("k2")}
\* what a client can present: a configured key, another string, or nothing
PresentedKeys == ApiKeys \cup {PyStr("k3"), PyNone}
Group(name, api_keys) == [name |-> name, api_keys |-> api_keys]
\* a dict has each name once
GroupTables ==
    {t \in UNION {[1..n -> {Group(g, ks) : g \in GroupNames, ks \in SUBSET ApiKeys}] :
                    n \in 0..MaxGroups} :
        \A i, j \in DOMAIN t : i # j => t[i].name # t[j].name}

\* the scan goes on when a later group holds the key too
InConfigSkip_LastWins ==
    /\ kpc = "iter"
    /\ ki <= Len(groups)
    /\ \/ api_key \notin groups[ki].api_keys
       \/ \E j \in DOMAIN groups : j > ki /\ api_key \in groups[j].api_keys
    /\ ki' = ki + 1
    /\ UNCHANGED <<kpc, groups, api_key, key_result>>
    /\ UNCHANGED notKey

\* lines 15-16: the key is not in this group's api_keys
InConfigSkip ==
    /\ kpc = "iter"
    /\ ki <= Len(groups)
    /\ api_key \notin groups[ki].api_keys
    /\ ki' = ki + 1
    /\ UNCHANGED <<kpc, groups, api_key, key_result>>
    /\ UNCHANGED notKey

\* lines 16-17: return group_name
InConfigFound ==
    /\ kpc = "iter"
    /\ ki <= Len(groups)
    /\ api_key \in groups[ki].api_keys
    /\ key_result' = PyStr(groups[ki].name)
    /\ kpc' = "done"
    /\ UNCHANGED <<groups, api_key, ki>>
    /\ UNCHANGED notKey

\* line 18: return None
InConfigNone ==
    /\ kpc = "iter"
    /\ ki > Len(groups)
    /\ key_result' = PyNone
    /\ kpc' = "done"
    /\ UNCHANGED <<groups, api_key, ki>>
    /\ UNCHANGED notKey

\* check_api_key_in_config(api_key) has been called
InitKey ==
    /\ kpc = "iter"
    /\ groups \in GroupTables
    /\ api_key \in PresentedKeys
    /\ ki = 1
    /\ key_result = PyNone
    /\ StreamIdle
    /\ RouteIdle
    /\ ChainIdle
    /\ HandlerIdle
    /\ AuthIdle
    /\ MergeIdle
    /\ ConcIdle
    /\ WrapIdle
    /\ EnvIdle

NextKey == InConfigSkip \/ InConfigFound \/ InConfigNone

SpecKey == InitKey /\ [][NextKey]_vars

(***************************************************************************)
(* chat_completions (app.py:145-177): the handler of                       *)
(* POST /v1/chat/completions.  It receives the parsed body only; the key   *)
(* the client presented and the configured groups are part of the state so *)
(* that properties can speak about them, and no statement of the handler   *)
(* reads them.                                                             *)
(***************************************************************************)
\* configurations and requests the handler is run on
HandlerRoutingTables == {t \in RoutingTables : Len(t) <= 1}
HandlerGroupTables == {t \in GroupTables : Len(t) <= 1}

\* lines 151-156: llm_params is built and resolve_connection_and_model is called
HandlerResolve ==
    /\ hpc = "start"
    /\ rpc = "idle"
    /\ rpc' = "iter"
    /\ ri' = 1
    /\ hpc' = "resolving"
    /\ UNCHANGED <<routing, connections, external_model, result, stream, upstream_calls>>
    /\ UNCHANGED notHandler

\* lines 153-156: resolve_connection_and_model raised, and so does the handler
HandlerFail ==
    /\ hpc = "resolving"
    /\ rpc = "done"
    /\ result.kind = "raise"
    /\ hpc' = "failed"
    /\ UNCHANGED <<routeVars, stream, upstream_calls>>
    /\ UNCHANGED notHandler

\* lines 157-164: a StreamingResponse over process_stream(async_llm_func, ...),
\* whose first iteration starts the upstream call (lines 114-116)
HandlerStream ==
    /\ hpc = "resolving"
    /\ rpc = "done"
    /\ result.kind = "return"
    /\ stream
    /\ result.connection \in connections
    /\ upstream_calls' = upstream_calls + 1
    /\ hpc' = "streaming"
    /\ UNCHANGED <<routeVars, stream>>
    /\ UNCHANGED notHandler

\* lines 157-177: out = await async_llm_func(...), returned in a JSONResponse
HandlerComplete ==
    /\ hpc = "resolving"
    /\ rpc = "done"
    /\ result.kind = "return"
    /\ ~stream
    /\ result.connection \in connections
    /\ upstream_calls' = upstream_calls + 1
    /\ hpc' = "responded"
    /\ UNCHANGED <<routeVars, stream>>
    /\ UNCHANGED notHandler

\* a request has arrived at chat_completions
InitHandler ==
    /\ hpc = "start"
    /\ stream \in BOOLEAN
    /\ upstream_calls = 0
    /\ rpc = "idle"
    /\ routing \in HandlerRoutingTables
    /\ connections \in ConnectionSets
    /\ external_model \in ModelNames
    /\ ri = 0
    /\ result = [kind |-> "none"]
    /\ kpc = "idle"
    /\ groups \in HandlerGroupTables
    /\ api_key \in PresentedKeys
    /\ ki = 0
    /\ key_result = PyNone
    /\ StreamIdle
    /\ ChainIdle
    /\ AuthIdle
    /\ MergeIdle
    /\ ConcIdle
    /\ WrapIdle
    /\ EnvIdle

NextHandler ==
    \/ HandlerResolve
    \/ ResolveSkip
    \/ ResolveRule
    \/ ResolveNoRoute
    \/ HandlerFail
    \/ HandlerStream
    \/ HandlerComplete

SpecHandler == InitHandler /\ [][NextHandler]_vars

(***************************************************************************)
(* CheckAPIKeyWithRequest (api_key_check/with_request.py).  check_func     *)
(* (lines 22-44) asks an identity service about the key; with use_cache it *)
(* is wrapped by cachetools.cached over a TTLCache (lines 46-57), which    *)
(* reads cache[key], calls check_func on a miss, stores what it returned   *)
(* and returns it, with no lock.  Several lookups run at once.             *)
(***************************************************************************)
Lookups == 1..NumLookups
default_group == PyStr("default")
GroupFields == {PyNone, PyStr("g")}

\* what response.json() gives for the bodies the service may send
PyList == [type |-> "list", items |-> {}]
JsonValues ==
    {PyDict({<<"g", PyStr("admins")>>}), PyDict({<<"name", PyStr("ann")>>}), PyList, PyNone}
Bodies == {[json |-> TRUE, value |-> v] : v \in JsonValues} \cup {[json |-> FALSE]}
\* what requests.request(...) may do: raise, or return a response
Outcomes ==
    {[kind |-> "network", exc |-> x] : x \in {"ConnectionError", "Timeout"}}
    \cup {[kind |-> "http", status |-> 200, body |-> b] : b \in Bodies}
    \cup {[kind |-> "http", status |-> st, body |-> [json |-> FALSE]] : st \in {403, 500}}

\* dict.get(key, default)
DictGet(d, key, default) ==
    IF \E it \in d.items : it[1] = key
    THEN (CHOOSE it \in d.items : it[1] = key)[2]
    ELSE default

NoMatch == [kind |-> "none"]
Pair(group, user_info) == [kind |-> "pair", group |-> group, user_info |-> user_info]
Raises(exc) == [kind |-> "raise", exc |-> exc]

\* lines 23-44, given what requests.request did
check_func(o) ==
    IF o.kind = "network" THEN NoMatch                  \* lines 29-34, 43-44
    ELSE IF o.status >= 400 THEN NoMatch                \* lines 35, 43-44
    ELSE IF ~response_as_user_info THEN Pair(default_group, PyNone)
    ELSE IF ~o.body.json THEN NoMatch                   \* lines 39, 43-44
    ELSE IF group_field = PyNone THEN Pair(default_group, o.body.value)
    ELSE IF o.body.value.type # "dict" THEN Raises("AttributeError")   \* line 41
    ELSE Pair(DictGet(o.body.value, group_field.str, default_group), o.body.value)

NoEntry == [kind |-> "absent"]
Entry(v, q) == [kind |-> "entry", value |-> v, by |-> q]

\* a lookup that starts while another one for the same key has its answer in
\* hand shares that answer instead of asking itself
LookupStart_SingleFlight(q) ==
    /\ lpc[q] = "start"
    /\ found' = [found EXCEPT ![q] = use_cache /\ cache[lkey[q]] # NoEntry]
    /\ IF use_cache /\ cache[lkey[q]] # NoEntry
       THEN /\ lres' = [lres EXCEPT ![q] = cache[lkey[q]].value]
            /\ served_by' = [served_by EXCEPT ![q] = cache[lkey[q]].by]
            /\ lpc' = [lpc EXCEPT ![q] = "done"]
       ELSE IF use_cache /\ \E p \in Lookups : lpc[p] = "store" /\ lkey[p] = lkey[q]
       THEN /\ lres' = [lres EXCEPT ![q] =
                    lres[CHOOSE p \in Lookups : lpc[p] = "store" /\ lkey[p] = lkey[q]]]
            /\ lpc' = [lpc EXCEPT ![q] = "done"]
            /\ UNCHANGED served_by
       ELSE /\ lpc' = [lpc EXCEPT ![q] = "request"]
            /\ UNCHANGED <<lres, served_by>>
    /\ UNCHANGED <<use_cache, response_as_user_info, group_field, cache, lkey, issued>>
    /\ UNCHANGED notAuth

\* lines 61-62, and for use_cache the read of cache[key] by the cached wrapper
LookupStart(q) ==
    /\ lpc[q] = "start"
    /\ found' = [found EXCEPT ![q] = use_cache /\ cache[lkey[q]] # NoEntry]
    /\ IF use_cache /\ cache[lkey[q]] # NoEntry
       THEN /\ lres' = [lres EXCEPT ![q] = cache[lkey[q]].value]
            /\ served_by' = [served_by EXCEPT ![q] = cache[lkey[q]].by]
            /\ lpc' = [lpc EXCEPT ![q] = "done"]
       ELSE /\ lpc' = [lpc EXCEPT ![q] = "request"]
            /\ UNCHANGED <<lres, served_by>>
    /\ UNCHANGED <<use_cache, response_as_user_info, group_field, cache, lkey, issued>>
    /\ UNCHANGED notAuth

\* only (group, user_info) results are stored, a "no match" is returned at once
LookupRequest_SkipFailures(q, o) ==
    /\ lpc[q] = "request"
    /\ issued' = [issued EXCEPT ![q] = TRUE]
    /\ lres' = [lres EXCEPT ![q] = check_func(o)]
    /\ lpc' = [lpc EXCEPT ![q] =
                IF use_cache /\ check_func(o).kind = "pair" THEN "store" ELSE "done"]
    /\ UNCHANGED <<use_cache, response_as_user_info, group_field, cache, lkey, found, served_by>>
    /\ UNCHANGED notAuth

\* lines 22-44: check_func runs; what it raises leaves the call at once, what it
\* returns is returned (line 59) or is still to be stored (line 57)
LookupRequest(q, o) ==
    /\ lpc[q] = "request"
    /\ issued' = [issued EXCEPT ![q] = TRUE]
    /\ lres' = [lres EXCEPT ![q] = check_func(o)]
    /\ lpc' = [lpc EXCEPT ![q] =
                IF use_cache /\ check_func(o).kind # "raise" THEN "store" ELSE "done"]
    /\ UNCHANGED <<use_cache, response_as_user_info, group_field, cache, lkey, found, served_by>>
    /\ UNCHANGED notAuth

\* line 57, the cached wrapper: cache[key] = v; return v
LookupStore(q) ==
    /\ lpc[q] = "store"
    /\ cache' = [cache EXCEPT ![lkey[q]] = Entry(lres[q], q)]
    /\ lpc' = [lpc EXCEPT ![q] = "done"]
    /\ UNCHANGED <<use_cache, response_as_user_info, group_field, lkey, lres, issued, found,
                   served_by>>
    /\ UNCHANGED notAuth

\* line 56: an entry leaves the TTLCache, its ttl over or maxsize reached
Expire(k) ==
    /\ cache[k] # NoEntry
    /\ cache' = [cache EXCEPT ![k] = NoEntry]
    /\ UNCHANGED <<use_cache, response_as_user_info, group_field, lkey, lpc, lres, issued, found,
                   served_by>>
    /\ UNCHANGED notAuth

\* a checker has been built and every lookup has a key to ask about
InitAuth ==
    /\ use_cache \in BOOLEAN
    /\ response_as_user_info \in BOOLEAN
    /\ group_field \in GroupFields
    /\ cache = [k \in ApiKeys |-> NoEntry]
    /\ lkey \in [Lookups -> ApiKeys]
    /\ lpc = [q \in Lookups |-> "start"]
    /\ lres = [q \in Lookups |-> NoMatch]
    /\ issued = [q \in Lookups |-> FALSE]
    /\ found = [q \in Lookups |-> FALSE]
    /\ served_by = [q \in Lookups |-> 0]
    /\ StreamIdle
    /\ RouteIdle
    /\ ChainIdle
    /\ KeyIdle
    /\ HandlerIdle
    /\ MergeIdle
    /\ ConcIdle
    /\ WrapIdle
    /\ EnvIdle

NextAuth ==
    \/ \E q \in Lookups : LookupStart(q)
    \/ \E q \in Lookups, o \in Outcomes : LookupRequest(q, o)
    \/ \E q \in Lookups : LookupStore(q)
    \/ \E k \in ApiKeys : Expire(k)

SpecAuth == InitAuth /\ [][NextAuth]_vars

(***************************************************************************)
(* merge_headers and filter_sensitive_headers (utils.py:119-191).  A dict  *)
(* is PyDict over a set of <<name, value>> items with each name once.      *)
(***************************************************************************)
SENSITIVE_HEADERS ==
    {"authorization", "www-authenticate", "content-length", "content-type",
     "transfer-encoding", "connection", "keep-alive", "upgrade", "cache-control", "etag",
     "if-none-match", "proxy-authorization", "proxy-connection",
     "strict-transport-security", "host", "range", "if-range", ":method", ":path", ":scheme",
     ":authority", "te", "trailer"}

\* the header names callers pass, and str.lower() of each
HeaderNames == {"AUTHORIZATION", "Host", "X-Custom", "x-custom"}
HeaderValues == {"v1", "v2"}
lower(name) ==
    CASE name = "AUTHORIZATION" -> "authorization"
      [] name = "Host" -> "host"
      [] name = "X-Custom" -> "x-custom"
      [] name = "x-custom" -> "x-custom"
HeaderDicts ==
    {PyDict({<<k, f[k]>> : k \in D}) : f \in [HeaderNames -> HeaderValues], D \in SUBSET HeaderNames}
\* a header argument: a dict, possibly empty, or None
HeaderArgs == HeaderDicts \cup {PyNone}
\* truth value of an argument: None and {} are false
Truthy(h) == h # PyNone /\ h.items # {}
\* dict.update(other)
DictUpdate(d, other) ==
    PyDict({it \in d.items : \A o \in other.items : o[1] # it[1]} \cup other.items)

\* names are compared as written
filter_sensitive_headers_AsWritten(headers) ==
    PyDict({it \in headers.items : it[1] \notin SENSITIVE_HEADERS})

\* lines 157-167
filter_sensitive_headers(headers) ==
    PyDict({it \in headers.items : lower(it[1]) \notin SENSITIVE_HEADERS})

\* line 186: result = dict(base_headers) if base_headers else {}
MergeCopy ==
    /\ mpc = "copy"
    /\ merged' = IF Truthy(base_headers) THEN PyDict(base_headers.items) ELSE PyDict({})
    /\ mpc' = "update"
    /\ UNCHANGED <<base_headers, override_headers, filter_sensitive, base0, override0>>
    /\ UNCHANGED notMerge

\* lines 187-188: if override_headers: result.update(override_headers)
MergeUpdate ==
    /\ mpc = "update"
    /\ merged' = IF Truthy(override_headers) THEN DictUpdate(merged, override_headers) ELSE merged
    /\ mpc' = "filter"
    /\ UNCHANGED <<base_headers, override_headers, filter_sensitive, base0, override0>>
    /\ UNCHANGED notMerge

\* lines 189-191: if filter_sensitive: result = filter_sensitive_headers(result)
MergeFilter ==
    /\ mpc = "filter"
    /\ merged' = IF filter_sensitive THEN filter_sensitive_headers(merged) ELSE merged
    /\ mpc' = "done"
    /\ UNCHANGED <<base_headers, override_headers, filter_sensitive, base0, override0>>
    /\ UNCHANGED notMerge

\* merge_headers(base_headers, override_headers, filter_sensitive) has been called
InitMerge ==
    /\ mpc = "copy"
    /\ base_headers \in HeaderArgs
    /\ override_headers \in HeaderArgs
    /\ filter_sensitive \in BOOLEAN
    /\ merged = PyNone
    /\ base0 = base_headers
    /\ override0 = override_headers
    /\ StreamIdle
    /\ RouteIdle
    /\ ChainIdle
    /\ KeyIdle
    /\ HandlerIdle
    /\ AuthIdle
    /\ ConcIdle
    /\ WrapIdle
    /\ EnvIdle

NextMerge == MergeCopy \/ MergeUpdate \/ MergeFilter

SpecMerge == InitMerge /\ [][NextMerge]_vars

(***************************************************************************)
(* Several process_stream calls on one event loop.  Each call has its own  *)
(* locals (queue, stream_id, created, task: lines 89-91 and 114) and its   *)
(* own callback and make_chunk closures (lines 94-112); the event loop     *)
(* runs one of them at a time, switching at an await or a yield.  The      *)
(* steps are those of the single call above, on the locals of call s.      *)
(***************************************************************************)
Streams == 1..NumStreams
\* the locals of a call that has not been iterated yet
NewStream ==
    [pc |-> "start", queue |-> <<>>, stream_id |-> Absent, created |-> 0,
     task_state |-> "none", task_exc |-> PyNone, produced |-> <<>>, frames |-> <<>>]
\* call s goes on with locals r, the other calls stay as they are
Becomes(s, r) ==
    /\ streams' = [streams EXCEPT ![s] = r]
    /\ UNCHANGED notConc
chunk_of(r, delta, content, finish_reason, error) ==
    make_chunk_of(r.stream_id, r.created, delta, content, finish_reason, error)
done_of(r) == r.task_state \in {"returned", "raised"}
\* secrets.token_hex(12) of line 90 gives every call a token of its own (96
\* random bits); the calls start within the same second
ConcIds == <<"chatcmpl-01", "chatcmpl-02", "chatcmpl-03", "chatcmpl-04">>
ConcNow == CHOOSE t \in Timestamps : \A u \in Timestamps : t <= u

\* one queue for all calls: every callback puts into the queue of call 1
ConcCallback_SharedQueue(s, chunk) ==
    /\ streams[s].task_state = "running"
    /\ Len(streams[s].produced) < MaxChunksEach
    /\ streams' = [t \in Streams |->
                    IF t = 1 /\ s = 1
                    THEN [streams[1] EXCEPT !.queue = Append(@, chunk),
                                            !.produced = Append(@, chunk)]
                    ELSE IF t = 1
                    THEN [streams[1] EXCEPT !.queue = Append(@, chunk)]
                    ELSE IF t = s
                    THEN [streams[s] EXCEPT !.produced = Append(@, chunk)]
                    ELSE streams[t]]
    /\ UNCHANGED notConc

\* lines 94-95: callback(chunk) of call s puts into the queue of call s
ConcCallback(s, chunk) ==
    /\ streams[s].task_state = "running"
    /\ Len(streams[s].produced) < MaxChunksEach
    /\ Becomes(s, [streams[s] EXCEPT !.queue = Append(@, chunk),
                                     !.produced = Append(@, chunk)])

\* the upstream function of call s returns
ConcTaskReturn(s) ==
    /\ streams[s].task_state = "running"
    /\ Becomes(s, [streams[s] EXCEPT !.task_state = "returned"])

\* the upstream function of call s raises e
ConcTaskRaise(s, e) ==
    /\ streams[s].task_state = "running"
    /\ Becomes(s, [streams[s] EXCEPT !.task_state = "raised", !.task_exc = e])

\* lines 89-120 of call s
ConcStart(s) ==
    /\ streams[s].pc = "start"
    /\ Becomes(s, [streams[s] EXCEPT
                    !.stream_id = ConcIds[s],
                    !.created = ConcNow,
                    !.task_state = "running",
                    !.frames = <<make_chunk_of(ConcIds[s], ConcNow,
                                               PyDict({<<"role", "assistant">>}),
                                               PyNone, PyNone, PyNone)>>,
                    !.pc = "loop"])

\* line 122
ConcLoopTest(s) ==
    /\ streams[s].pc = "loop"
    /\ Becomes(s, [streams[s] EXCEPT !.pc = IF done_of(streams[s]) THEN "drain" ELSE "wait"])

\* lines 124-125
ConcPollGet(s) ==
    /\ streams[s].pc = "wait"
    /\ streams[s].queue # <<>>
    /\ Becomes(s, [streams[s] EXCEPT
                    !.frames = Append(@, chunk_of(streams[s], PyNone, Head(streams[s].queue),
                                                  PyNone, PyNone)),
                    !.queue = Tail(@),
                    !.pc = "loop"])

\* lines 126-127
ConcPollTimeout(s) ==
    /\ streams[s].pc = "wait"
    /\ streams[s].queue = <<>>
    /\ Becomes(s, [streams[s] EXCEPT !.pc = "loop"])

\* lines 130-132
ConcDrainGet(s) ==
    /\ streams[s].pc = "drain"
    /\ streams[s].queue # <<>>
    /\ Becomes(s, [streams[s] EXCEPT
                    !.frames = Append(@, chunk_of(streams[s], PyNone, Head(streams[s].queue),
                                                  PyNone, PyNone)),
                    !.queue = Tail(@)])

\* line 130, queue.empty()
ConcDrainEnd(s) ==
    /\ streams[s].pc = "drain"
    /\ streams[s].queue = <<>>
    /\ Becomes(s, [streams[s] EXCEPT !.pc = "finally"])

\* lines 134-138
ConcAwaitTask(s) ==
    /\ streams[s].pc = "finally"
    /\ done_of(streams[s])
    /\ Becomes(s, [streams[s] EXCEPT
                    !.frames = IF streams[s].task_state = "raised"
                               THEN Append(@, chunk_of(streams[s], PyNone, PyNone, PyNone,
                                                       ErrorDict(streams[s].task_exc)))
                               ELSE @,
                    !.pc = "stop"])

\* line 141
ConcYieldStop(s) ==
    /\ streams[s].pc = "stop"
    /\ Becomes(s, [streams[s] EXCEPT
                    !.frames = Append(@, chunk_of(streams[s], PyNone, PyNone, PyStr("stop"),
                                                  PyNone)),
                    !.pc = "sentinel"])

\* line 142
ConcYieldDone(s) ==
    /\ streams[s].pc = "sentinel"
    /\ Becomes(s, [streams[s] EXCEPT !.frames = Append(@, DoneFrame), !.pc = "end"])

\* the calls have been made and none has been iterated
InitConc ==
    /\ streams = [s \in Streams |-> NewStream]
    /\ StreamIdle
    /\ RouteIdle
    /\ ChainIdle
    /\ KeyIdle
    /\ HandlerIdle
    /\ AuthIdle
    /\ MergeIdle
    /\ WrapIdle
    /\ EnvIdle

NextConc ==
    \/ \E s \in Streams, chunk \in Chunks : ConcCallback(s, chunk)
    \/ \E s \in Streams : ConcTaskReturn(s)
    \/ \E s \in Streams, e \in Exceptions : ConcTaskRaise(s, e)
    \/ \E s \in Streams : ConcStart(s)
    \/ \E s \in Streams : ConcLoopTest(s)
    \/ \E s \in Streams : ConcPollGet(s)
    \/ \E s \in Streams : ConcPollTimeout(s)
    \/ \E s \in Streams : ConcDrainGet(s)
    \/ \E s \in Streams : ConcDrainEnd(s)
    \/ \E s \in Streams : ConcAwaitTask(s)
    \/ \E s \in Streams : ConcYieldStop(s)
    \/ \E s \in Streams : ConcYieldDone(s)

SpecConc == InitConc /\ [][NextConc]_vars

(***************************************************************************)
(* create_llm_wrapper (bootstrap.py:44-83): a connection's function with   *)
(* the config-level headers injected.  Keyword arguments are a record of   *)
(* the extra_headers argument (Missing when not passed) and the others.    *)
(***************************************************************************)
\* merge_headers (utils.py:170-191) as a function of its arguments
merge_headers(base, override, filter) ==
    LET copied == IF Truthy(base) THEN PyDict(base.items) ELSE PyDict({})
        updated == IF Truthy(override) THEN DictUpdate(copied, override) ELSE copied
    IN IF filter THEN filter_sensitive_headers(updated) ELSE updated

Missing == [type |-> "missing"]
Kwargs(eh, others) == [extra_headers |-> eh, others |-> others]
OtherKwargs == {{}, {<<"temperature", "0.5">>, <<"model", "g4">>}}
RequestKwargs == {Kwargs(eh, o) : eh \in HeaderArgs \cup {Missing}, o \in OtherKwargs}
\* kwargs.pop("extra_headers", None)
PopExtraHeaders(kw) == IF kw.extra_headers = Missing THEN PyNone ELSE kw.extra_headers

\* lines 61-63 and 83: the function itself for no headers, else the wrapper
WrapCreate ==
    /\ wpc = "create"
    /\ wrapped' = Truthy(extra_headers)
    /\ wpc' = "call"
    /\ UNCHANGED <<extra_headers, kwargs, llm_kwargs>>
    /\ UNCHANGED notWrap

\* line 62 returned llm_func: the caller's call is the call of llm_func
CallOriginal ==
    /\ wpc = "call"
    /\ ~wrapped
    /\ llm_kwargs' = kwargs
    /\ wpc' = "done"
    /\ UNCHANGED <<extra_headers, wrapped, kwargs>>
    /\ UNCHANGED notWrap

\* the config-level headers take precedence over the request's
CallWrapper_ConfigWins ==
    /\ wpc = "call"
    /\ wrapped
    /\ LET merged_headers == merge_headers(PopExtraHeaders(kwargs), extra_headers, TRUE)
       IN llm_kwargs' = Kwargs(IF Truthy(merged_headers) THEN merged_headers ELSE Missing,
                               kwargs.others)
    /\ wpc' = "done"
    /\ UNCHANGED <<extra_headers, wrapped, kwargs>>
    /\ UNCHANGED notWrap

\* lines 64-73: wrapper(prompt, **kwargs) up to the call of llm_func
CallWrapper ==
    /\ wpc = "call"
    /\ wrapped
    /\ LET merged_headers == merge_headers(extra_headers, PopExtraHeaders(kwargs), TRUE)
       IN llm_kwargs' = Kwargs(IF Truthy(merged_headers) THEN merged_headers ELSE Missing,
                               kwargs.others)
    /\ wpc' = "done"
    /\ UNCHANGED <<extra_headers, wrapped, kwargs>>
    /\ UNCHANGED notWrap

\* create_llm_wrapper(llm_func, extra_headers) has been called; what it returns
\* will be called with kwargs
InitWrap ==
    /\ wpc = "create"
    /\ extra_headers \in HeaderArgs
    /\ wrapped = FALSE
    /\ kwargs \in RequestKwargs
    /\ llm_kwargs = PyNone
    /\ StreamIdle
    /\ RouteIdle
    /\ ChainIdle
    /\ KeyIdle
    /\ HandlerIdle
    /\ AuthIdle
    /\ MergeIdle
    /\ ConcIdle
    /\ EnvIdle

NextWrap == WrapCreate \/ CallOriginal \/ CallWrapper

SpecWrap == InitWrap /\ [][NextWrap]_vars

(***************************************************************************)
(* replace_env_strings_recursive (utils.py:98-114).  A tree is a dict      *)
(* (a set of <<key, tree>> items), a list (a sequence of trees), a string  *)
(* (its characters, since the code tests a prefix and slices) or another   *)
(* leaf.                                                                   *)
(***************************************************************************)
Str(chars) == [type |-> "str", chars |-> chars]
List(items) == [type |-> "list", items |-> items]
Dict(items) == [type |-> "dict", items |-> items]
IntLeaf == [type |-> "int", str |-> "1"]

EnvPrefix == <<"e", "n", "v", ":">>
\* "env:A", "env:B", "env:", "envA", "xenv:A", and 1
Leaves ==
    {Str(EnvPrefix \o <<"A">>), Str(EnvPrefix \o <<"B">>), Str(EnvPrefix), Str(<<"e", "n", "v", "A">>),
     Str(<<"x">> \o EnvPrefix \o <<"A">>), IntLeaf}
\* os.environ: A set to "v" and B unset; A set to "env:B" and B to "w"; nothing set
Environs ==
    {{<<(<<"A">>), <<"v">>>>},
     {<<(<<"A">>), EnvPrefix \o <<"B">>>>, <<(<<"B">>), <<"w">>>>},
     {}}

\* trees of depth at most d: a container holds one subtree and at most one more leaf
RECURSIVE TreesUpTo(_)
TreesUpTo(d) ==
    IF d = 0 THEN Leaves
    ELSE LET sub == TreesUpTo(d - 1)
         IN Leaves
            \cup {List(<<t>>) : t \in sub}
            \cup {List(<<l, t>>) : l \in Leaves, t \in sub}
            \cup {Dict({<<"k", t>>}) : t \in sub}
            \cup {Dict({<<"env:A", l>>, <<"k", t>>}) : l \in Leaves, t \in sub}

\* str.startswith(prefix)
StartsWith(chars, prefix) ==
    Len(chars) >= Len(prefix) /\ SubSeq(chars, 1, Len(prefix)) = prefix
\* os.environ.get(name, "")
EnvironGet(name) ==
    IF \E it \in environ : it[1] = name
    THEN (CHOOSE it \in environ : it[1] = name)[2]
    ELSE <<>>

\* only a string passed directly is replaced, containers are returned as they are
RECURSIVE replace_env_strings_recursive(_)
replace_env_strings_TopLevel(d) ==
    IF d.type = "str" /\ StartsWith(d.chars, EnvPrefix)
    THEN Str(EnvironGet(SubSeq(d.chars, Len(EnvPrefix) + 1, Len(d.chars))))
    ELSE d

\* lines 105-114
replace_env_strings_recursive(d) ==
    IF d.type = "dict"
    THEN Dict({<<it[1], replace_env_strings_recursive(it[2])>> : it \in d.items})
    ELSE IF d.type = "list"
    THEN List([i \in 1..Len(d.items) |-> replace_env_strings_recursive(d.items[i])])
    ELSE IF d.type = "str" /\ StartsWith(d.chars, EnvPrefix)
    THEN Str(EnvironGet(SubSeq(d.chars, Len(EnvPrefix) + 1, Len(d.chars))))
    ELSE d

\* replace_env_strings_recursive(data)
EnvReplace ==
    /\ epc = "first"
    /\ replaced' = replace_env_strings_recursive(data)
    /\ epc' = "second"
    /\ UNCHANGED <<data, environ, replaced_again>>
    /\ UNCHANGED notEnv

\* replace_env_strings_recursive of what the first call returned
EnvReplaceAgain ==
    /\ epc = "second"
    /\ replaced_again' = replace_env_strings_recursive(replaced)
    /\ epc' = "done"
    /\ UNCHANGED <<data, environ, replaced>>
    /\ UNCHANGED notEnv

InitEnv ==
    /\ epc = "first"
    /\ data \in TreesUpTo(MaxDepth)
    /\ environ \in Environs
    /\ replaced = PyNone
    /\ replaced_again = PyNone
    /\ StreamIdle
    /\ RouteIdle
    /\ ChainIdle
    /\ KeyIdle
    /\ HandlerIdle
    /\ AuthIdle
    /\ MergeIdle
    /\ ConcIdle
    /\ WrapIdle

NextEnv == EnvReplace \/ EnvReplaceAgain

SpecEnv == InitEnv /\ [][NextEnv]_vars

(***************************************************************************)
(* The whole model: one of the subsystems runs.                            *)
(***************************************************************************)
Init == InitStream \/ InitRoute \/ InitChain \/ InitKey \/ InitHandler \/ InitAuth \/ InitMerge
        \/ InitConc \/ InitWrap \/ InitEnv
Next == NextStreamClose \/ NextRoute \/ NextChain \/ NextKey \/ NextHandler \/ NextAuth \/ NextMerge
        \/ NextConc \/ NextWrap \/ NextEnv
Spec == Init /\ [][Next]_vars

(***************************************************************************)
(* Properties of process_stream.                                           *)
(***************************************************************************)
IsJson(f) == f.sse = "json"
IsDone(f) == f.sse = "[DONE]"
Plain(f) == IsJson(f) /\ f.obj.error = NoError /\ f.obj.finish_reason = Absent
IsRole(f) == Plain(f) /\ f.obj.delta = {<<"role", "assistant">>}
IsContentFrame(f) == Plain(f) /\ \E p \in f.obj.delta : p[1] = "content"
IsContent(f, chunk) == Plain(f) /\ f.obj.delta = {<<"content", chunk.str>>}
IsStop(f) ==
    IsJson(f) /\ f.obj.error = NoError /\ f.obj.finish_reason = "stop" /\ f.obj.delta = {}
IsErrorFrame(f) ==
    IsJson(f) /\ f.obj.error # NoError /\ f.obj.finish_reason = "error" /\ f.obj.delta = {}
ContentText(f) == (CHOOSE p \in f.obj.delta : p[1] = "content")[2]
\* the texts of the content frames of fs, in the order of fs
ContentsOf(fs) ==
    LET cs == SelectSeq(fs, IsContentFrame)
    IN [i \in 1..Len(cs) |-> ContentText(cs[i])]
TextsOf(chunks) == [i \in 1..Len(chunks) |-> chunks[i].str]
NumDone(fs) == Cardinality({i \in 1..Len(fs) : IsDone(fs[i])})

\* role frame, one content frame per chunk of `produced`, then `tail`
FramesAre(tail) ==
    LET n == Len(produced)
    IN /\ Len(frames) = 1 + n + Len(tail)
       /\ IsRole(frames[1])
       /\ \A i \in 1..n : IsContent(frames[1 + i], produced[i])
       /\ \A k \in 1..Len(tail) :
            CASE tail[k] = "stop" -> IsStop(frames[1 + n + k])
              [] tail[k] = "error" -> IsErrorFrame(frames[1 + n + k])
              [] tail[k] = "done" -> IsDone(frames[1 + n + k])

\* C1: when the upstream task completed normally after delivering c1..cn, the
\* finished stream is exactly: the role frame, one content frame per chunk in
\* order, the frame with finish_reason "stop", the [DONE] sentinel.
C1_NormalStream ==
    (pc = "end" /\ task_state = "returned") => FramesAre(<<"stop", "done">>)

C1_Witness ==
    /\ pc = "end"
    /\ task_state = "returned"
    /\ TextsOf(produced) = <<"a", "b", "a">>
    /\ Len(frames) = 6

\* C2: when the upstream task raised after delivering c1..cn, the finished
\* stream is exactly: the role frame, one content frame per chunk, one error
\* frame with finish_reason "error", and [DONE] as the next and last frame.
C2_ErrorStreamThenDone ==
    (pc = "end" /\ task_state = "raised") => FramesAre(<<"error", "done">>)

C4_ContentOrder ==
    /\ Len(ContentsOf(frames)) <= Len(produced)
    /\ ContentsOf(frames) = SubSeq(TextsOf(produced), 1, Len(ContentsOf(frames)))
    /\ Len(frames) > 0 => IsRole(frames[1])
    /\ \A i \in 1..Len(frames) : IsRole(frames[i]) => i = 1

C4_Witness ==
    /\ pc = "end"
    /\ taken = <<"poll", "drain", "drain">>
    /\ TextsOf(produced) = <<"a", "b", "a">>
    /\ ContentsOf(frames) = <<"a", "b", "a">>

\* C5: content frames yielded plus chunks still queued are always exactly the
\* chunks delivered; once the task's outcome has been observed (the finally
\* block is past) the queue is empty and every delivered chunk has been
\* yielded exactly once; and no content frame follows an error or stop frame.
C5_DrainBeforeOutcome ==
    /\ ContentsOf(frames) \o TextsOf(queue) = TextsOf(produced)
    /\ pc \in {"stop", "sentinel", "end"} =>
          queue = <<>> /\ ContentsOf(frames) = TextsOf(produced)
    /\ \A i, j \in 1..Len(frames) :
          (i < j /\ (IsErrorFrame(frames[i]) \/ IsStop(frames[i])))
             => ~IsContentFrame(frames[j])

C5_Witness ==
    /\ pc = "stop"
    /\ task_state = "raised"
    /\ taken = <<"poll", "drain", "drain">>
    /\ IsErrorFrame(frames[Len(frames)])
    /\ IsContentFrame(frames[Len(frames) - 1])

(***************************************************************************)
(* Properties of resolve_connection_and_model.  What matches what is       *)
(* stated here on its own, as the shell's glob rules give it for the       *)
(* names and patterns above: matching is case-sensitive and of the whole   *)
(* name.                                                                   *)
(***************************************************************************)
GlobTable ==
    {<<n, <<"*">>>> : n \in ModelNames}
    \cup {<<<<"g", "4">>, <<"g", "*">>>>, <<<<"g", "4", "t">>, <<"g", "*">>>>,
          <<<<"g", "4">>, <<"g", "4">>>>,
          <<<<"g", "4">>, <<"g", "?">>>>,
          <<<<"g", "4">>, <<"[", "!", "x", "]", "4">>>>,
          <<<<"G", "4">>, <<"[", "!", "x", "]", "4">>>>}

Matches(i) == <<external_model, routing[i][1]>> \in GlobTable
HasMatch == \E i \in 1..Len(routing) : Matches(i)
FirstMatch == CHOOSE i \in 1..Len(routing) : Matches(i) /\ \A j \in 1..(i - 1) : ~Matches(j)
FirstRule == routing[FirstMatch][2]
\* rule reads c.m, and c has no dot
IsTarget(rule, c, m) == rule = c \o <<".">> \o m /\ \A k \in 1..Len(c) : c[k] # "."
Pieces(rule) == {SubSeq(rule, a, b) : a \in 1..Len(rule) + 1, b \in 0..Len(rule)}
NoRoute == Raise("ValueError", "No routing rule matched model", external_model)
UnknownConnection(c) == Raise("ValueError", "Routing selected unknown connection", c)

\* C6: when some pattern matches and the first matching rule names a known
\* connection, the call returns the target of that first rule: its
\* connection, and its model part (the requested name for "*").
C6_FirstMatchWins ==
    (rpc = "done" /\ HasMatch) =>
        \A c, m \in Pieces(FirstRule) :
            (IsTarget(FirstRule, c, m) /\ c \in connections)
                => result = Return(c, IF m = <<"*">> THEN external_model ELSE m)

\* C7: when the first matching rule reads connection.model, the model part is
\* not "*" and the connection is known, the call returns the connection and
\* the model part as written, the rule being split at its first dot only.
C7_ExplicitModel ==
    (rpc = "done" /\ HasMatch) =>
        \A c, m \in Pieces(FirstRule) :
            (IsTarget(FirstRule, c, m) /\ c \in connections /\ m # <<"*">>)
                => result = Return(c, m)

\* C8: when the first matching rule reads connection.* and the connection is
\* known, the call returns the connection and the requested model name
\* unchanged.
C8_WildcardModel ==
    (rpc = "done" /\ HasMatch) =>
        \A c \in Pieces(FirstRule) :
            (IsTarget(FirstRule, c, <<"*">>) /\ c \in connections)
                => result = Return(c, external_model)

C8_Witness ==
    /\ rpc = "done"
    /\ external_model = <<"g", "4">>
    /\ Len(routing) = 1
    /\ routing[1] = <<<<"*">>, <<"o", ".", "*">>>>
    /\ result = Return(<<"o">>, <<"g", "4">>)

\* C9: the call fails with the no-route error exactly when no pattern of the
\* routing table matches the requested name, case-sensitively and as a whole.
C9_NoRouteIffNoMatch ==
    rpc = "done" => ((result = NoRoute) <=> ~HasMatch)

C9_Witness ==
    /\ rpc = "done"
    /\ external_model = <<"G", "4">>
    /\ Len(routing) = 2
    /\ {routing[1][1], routing[2][1]} = {<<"g", "4">>, <<"4">>}
    /\ result = NoRoute

\* C10: when the first matching rule names a connection that is not
\* configured, the call fails with the unknown-connection error naming it,
\* whatever the model part and whatever rules follow.
C10_UnknownConnection ==
    (rpc = "done" /\ HasMatch) =>
        \A c, m \in Pieces(FirstRule) :
            (IsTarget(FirstRule, c, m) /\ c \notin connections)
                => result = UnknownConnection(c)

C10_Witness ==
    /\ rpc = "done"
    /\ external_model = <<"g", "4">>
    /\ Len(routing) = 2
    /\ routing[1] = <<<<"g", "*">>, <<"m", ".", "*">>>>
    /\ routing[2] = <<<<"*">>, <<"o", ".", "*">>>>
    /\ result = UnknownConnection(<<"m">>)

\* C16: closing the generator after any frame while the upstream task is
\* still running completes without a failure, whether the task later returns
\* or raises.
C16_CloseNeverFails == pc # "close_failed"

(***************************************************************************)
(* Properties of run_middleware_chain, read off the history in trace.      *)
(***************************************************************************)
Positions == DOMAIN middlewares
Entered(j) == \E i \in DOMAIN trace : trace[i].ev = "pre" /\ trace[i].mw = j
PostRan(j) == \E i \in DOMAIN trace : trace[i].ev = "post" /\ trace[i].mw = j
HandlerRan == \E i \in DOMAIN trace : trace[i].ev = "handler"
EvSeq == [i \in DOMAIN trace |-> <<trace[i].ev, trace[i].mw>>]
\* hi, hi-1, ..., lo
Down(hi, lo) == [i \in 1..(hi + 1 - lo) |-> hi + 1 - i]
AllCallAndReturn == \A j \in Positions : middlewares[j] \in {"pass", "log", "catch"}

NestedOrder ==
    [i \in 1..(2 * Len(middlewares) + 1) |->
        IF i <= Len(middlewares) THEN <<"pre", i>>
        ELSE IF i = Len(middlewares) + 1 THEN <<"handler", i>>
        ELSE <<"post", 2 * Len(middlewares) + 2 - i>>]
C12_NestedOrder ==
    (AllCallAndReturn /\ handler_kind = "respond") =>
        /\ Len(trace) <= Len(NestedOrder)
        /\ \A i \in DOMAIN trace : EvSeq[i] = NestedOrder[i]
        /\ cpc = "done" => Len(trace) = Len(NestedOrder) /\ outcome = "returned"
C12_Witness ==
    /\ cpc = "done"
    /\ middlewares = <<"pass", "log", "catch">>
    /\ handler_kind = "respond"
    /\ EvSeq = <<<<"pre", 1>>, <<"pre", 2>>, <<"pre", 3>>, <<"handler", 4>>,
                 <<"post", 3>>, <<"post", 2>>, <<"post", 1>>>>

Raised(o) ==
    IF o = HandlerIndex THEN HandlerRan /\ handler_kind = "fail"
    ELSE \/ middlewares[o] = "raise_pre" /\ Entered(o)
         \/ middlewares[o] = "raise_post" /\ PostRan(o)
Catchers(o) == {j \in Positions : j < o /\ middlewares[j] = "catch"}
\* the outermost middleware the failure started at o reaches
Outermost(o) ==
    IF Catchers(o) = {} THEN 1
    ELSE CHOOSE c \in Catchers(o) : \A d \in Catchers(o) : d <= c
IsExcOf(o, e) == e.ev = "exc" /\ e.seen = o
\* the middlewares that saw the failure started at o, in the order they saw it
ObserversOf(o) ==
    LET evs == SelectSeq(trace, LAMBDA e : IsExcOf(o, e))
    IN [i \in DOMAIN evs |-> evs[i].mw]
\* the first position that does not invoke its continuation
Innermost ==
    IF \A j \in Positions : CallsNext(middlewares[j]) THEN HandlerIndex
    ELSE CHOOSE b \in Positions :
            /\ ~CallsNext(middlewares[b])
            /\ \A j \in Positions : j < b => CallsNext(middlewares[j])

\* C14: a failure raised by the handler or by middleware mk is raised out of the
\* continuation call of m(k-1), ..., in that order, up to the first one that
\* catches it, and no middleware outside that one sees it; caught by none, it
\* reaches m1 and is raised out of run_middleware_chain; middlewares never
\* entered never run.
C14_FailurePropagates ==
    /\ \A o \in 1..HandlerIndex :
        /\ \A i \in DOMAIN trace :
            IsExcOf(o, trace[i]) => Raised(o) /\ trace[i].mw >= Outermost(o)
        /\ (cpc = "done" /\ Raised(o)) =>
            /\ ObserversOf(o) = Down(o - 1, Outermost(o))
            /\ Catchers(o) = {} => outcome = "raised"
    /\ \A i \in DOMAIN trace : trace[i].mw <= Innermost
    /\ cpc = "done" /\ outcome = "raised" =>
            \E o \in 1..HandlerIndex : Raised(o) /\ Catchers(o) = {}
C14_Witness ==
    /\ cpc = "done"
    /\ middlewares = <<"log", "pass", "raise_pre">>
    /\ outcome = "raised"
    /\ ObserversOf(3) = <<2, 1>>
\* a caught failure is seen by the catcher and by nobody outside it
C14_WitnessCaught ==
    /\ cpc = "done"
    /\ middlewares = <<"log", "catch", "pass">>
    /\ handler_kind = "fail"
    /\ ObserversOf(4) = <<3, 2>>
    /\ outcome = "returned"

(***************************************************************************)
(* Properties of check_api_key_in_config.                                  *)
(***************************************************************************)
Holders == {i \in DOMAIN groups : api_key \in groups[i].api_keys}
\* the name of the earliest group holding the key, None when no group does
FirstHolder ==
    IF Holders = {} THEN PyNone
    ELSE PyStr(groups[CHOOSE i \in Holders : \A j \in Holders : i <= j].name)

\* C17: check_api_key_in_config returns the name of the first group, in
\* configured order, whose api_keys holds the presented key: the one group that
\* holds it, the earliest of several, and None when no group holds it.
C17_FirstGroupWins == kpc = "done" => key_result = FirstHolder
C17_Witness ==
    /\ kpc = "done"
    /\ Cardinality(Holders) = 2
    /\ key_result = PyStr(groups[1].name)
\* a key in no group resolves to None
C17_WitnessNone ==
    /\ kpc = "done"
    /\ Len(groups) = 2
    /\ Holders = {}
    /\ api_key # PyNone
    /\ key_result = PyNone

(***************************************************************************)
(* Properties of chat_completions.                                         *)
(***************************************************************************)
\* C15: for a request whose key is in no group, the connection function is
\* never invoked.
C15_NoUpstreamWithoutGroup == (hpc # "idle" /\ Holders = {}) => upstream_calls = 0

(***************************************************************************)
(* Properties of CheckAPIKeyWithRequest.                                   *)
(***************************************************************************)
\* C18: whatever the identity service does, a lookup ends with a
\* (group, user_info) result or with "no match", never by raising.
C18_NeverRaises == \A q \in DOMAIN lpc : lpc[q] = "done" => lres[q].kind # "raise"

\* C19: with use_cache, a finished lookup made its own request unless its key
\* had a stored entry when it started; then it made none and returned what an
\* earlier, finished lookup of the same key had stored.  So lookups of one key
\* that overlap before anything is stored each make their own request.
C19_NoDeduplication ==
    use_cache =>
        \A q \in DOMAIN lpc :
            lpc[q] = "done" =>
                IF found[q]
                THEN /\ ~issued[q]
                     /\ served_by[q] \in DOMAIN lpc \ {q}
                     /\ lkey[served_by[q]] = lkey[q]
                     /\ lpc[served_by[q]] = "done"
                     /\ issued[served_by[q]]
                     /\ lres[q] = lres[served_by[q]]
                ELSE issued[q] /\ served_by[q] = 0
\* two lookups of one key are in flight together, each with its own answer
C19_Witness ==
    /\ use_cache
    /\ DOMAIN lpc = Lookups
    /\ lkey[1] = lkey[2]
    /\ lpc[1] = "store" /\ lpc[2] = "store"
    /\ issued[1] /\ issued[2]
    /\ ~found[1] /\ ~found[2]
\* a lookup started after the other one stored is served from the cache
C19_WitnessHit ==
    /\ use_cache
    /\ DOMAIN lpc = Lookups
    /\ lpc[1] = "done" /\ lpc[2] = "done"
    /\ issued[1] /\ ~issued[2]
    /\ served_by[2] = 1

(***************************************************************************)
(* Properties of merge_headers.                                            *)
(***************************************************************************)
ItemsOf(h) == IF h = PyNone THEN {} ELSE h.items
NamesOf(h) == {it[1] : it \in ItemsOf(h)}
ValueOf(h, k) == (CHOOSE it \in ItemsOf(h) : it[1] = k)[2]
\* the names of HeaderNames that are sensitive whatever their case
SensitiveNames == {"AUTHORIZATION", "Host"}

\* C20: merge_headers returns all names of both maps, with the override's value
\* for a name in both, minus the names that are sensitive in any case unless
\* filter_sensitive is off; neither argument is modified.
C20_MergeHeaders ==
    mpc = "done" =>
        /\ merged.type = "dict"
        /\ NamesOf(merged) =
            (NamesOf(base0) \cup NamesOf(override0))
                \ (IF filter_sensitive THEN SensitiveNames ELSE {})
        /\ \A k \in NamesOf(merged) :
            /\ Cardinality({it \in merged.items : it[1] = k}) = 1
            /\ ValueOf(merged, k) =
                IF k \in NamesOf(override0) THEN ValueOf(override0, k) ELSE ValueOf(base0, k)
        /\ base_headers = base0
        /\ override_headers = override0
C20_Witness ==
    /\ mpc = "done"
    /\ filter_sensitive
    /\ base0 = PyDict({<<"AUTHORIZATION", "v1">>, <<"X-Custom", "v1">>})
    /\ override0 = PyDict({<<"Host", "v2">>, <<"X-Custom", "v2">>, <<"x-custom", "v1">>})
    /\ merged = PyDict({<<"X-Custom", "v2">>, <<"x-custom", "v1">>})
\* with filtering off the sensitive names stay, and an absent base is an empty one
C20_WitnessUnfiltered ==
    /\ mpc = "done"
    /\ ~filter_sensitive
    /\ base0 = PyNone
    /\ override0 = PyDict({<<"Host", "v2">>})
    /\ merged = PyDict({<<"Host", "v2">>})

(***************************************************************************)
(* Counting what run_middleware_chain ran.                                 *)
(***************************************************************************)
TimesEntered(j) == Cardinality({i \in DOMAIN trace : trace[i].ev = "pre" /\ trace[i].mw = j})
TimesHandled == Cardinality({i \in DOMAIN trace : trace[i].ev = "handler"})
AllCallOnce == \A j \in Positions : CallsNext(middlewares[j])

\* C27: when every middleware invokes its continuation once, the chain enters
\* each middleware exactly once and runs the handler exactly once, for every
\* length of the list; for the empty list the handler is called directly, with
\* nothing wrapped.
C27_EachExactlyOnce ==
    AllCallOnce =>
        /\ \A j \in Positions : TimesEntered(j) <= 1
        /\ TimesHandled <= 1
        /\ cpc = "done" =>
            /\ \A j \in Positions : TimesEntered(j) = 1
            /\ TimesHandled = 1
        /\ (cpc = "done" /\ middlewares = <<>>) =>
            /\ chain = <<>>
            /\ cstack = <<>>
            /\ Len(trace) = 1
C27_Witness ==
    /\ cpc = "done"
    /\ middlewares = <<"pass", "pass", "pass">>
    /\ \A j \in Positions : TimesEntered(j) = 1
    /\ TimesHandled = 1
\* the empty list: the handler alone ran
C27_WitnessEmpty ==
    /\ cpc = "done"
    /\ middlewares = <<>>
    /\ TimesHandled = 1
    /\ Len(trace) = 1

\* what a step does to lookup q, with use_cache
StoresNoMatch(q) ==
    \* check_func returned "no match": the wrapper goes on to store it
    /\ (lpc[q] = "request" /\ lpc'[q] # "request" /\ lres'[q] = NoMatch) => lpc'[q] = "store"
    \* and stores it under the key
    /\ (lpc[q] = "store" /\ lpc'[q] # "store") =>
            lpc'[q] = "done" /\ cache'[lkey[q]] = Entry(lres[q], q)
ServedNoMatch(q) ==
    \* a lookup that starts on a stored "no match" returns it and asks nobody
    /\ ( /\ lpc[q] = "start" /\ lpc'[q] # "start"
         /\ cache[lkey[q]] # NoEntry
         /\ cache[lkey[q]].value = NoMatch ) =>
            lpc'[q] = "done" /\ lres'[q] = NoMatch /\ ~issued'[q]
    \* the service is asked only by a lookup that found no entry for its key
    /\ (~issued[q] /\ issued'[q]) => ~found[q]

\* C26: with use_cache a "no match" is stored like any other result: a later
\* lookup of the same key returns "no match" without asking the service, whatever
\* the service would answer now, until the entry has left the cache.
C26_NoMatchIsCached ==
    [][use_cache => \A q \in DOMAIN lpc : StoresNoMatch(q) /\ ServedNoMatch(q)]_vars
C26_Witness ==
    /\ use_cache
    /\ DOMAIN lpc = Lookups
    /\ lpc[1] = "done" /\ issued[1] /\ lres[1] = NoMatch
    /\ lpc[2] = "done" /\ ~issued[2] /\ lres[2] = NoMatch
    /\ found[2] /\ served_by[2] = 1

(***************************************************************************)
(* More properties of process_stream: what the frames carry.               *)
(***************************************************************************)
HasError(f) == IsJson(f) /\ f.obj.error # NoError

\* C23: the error frame of a stream whose task raised E has E's message as
\* error.message, E's class name as error.type, and finish_reason "error".
C23_ErrorFrameCarriesFailure ==
    \A i \in 1..Len(frames) :
        HasError(frames[i]) =>
            /\ task_state = "raised"
            /\ frames[i].obj.error.message = task_exc.str
            /\ frames[i].obj.error.type = task_exc.type
            /\ frames[i].obj.finish_reason = "error"

\* the id and the timestamp of every frame but [DONE] are those fixed at line
\* 90 and line 91, and the role frame is the first frame and no other
IdAndCreatedFixed ==
    /\ \A i \in 1..Len(frames) :
        IsJson(frames[i]) =>
            /\ frames[i].obj.id = stream_id
            /\ frames[i].obj.created = created
            /\ frames[i].obj.id \in StreamIds
    /\ \A i \in 1..Len(frames) :
        (IsJson(frames[i]) /\ \E p \in frames[i].obj.delta : p[1] = "role") <=> i = 1

\* C24: the first frame announces role "assistant" with an empty content string
\* in its delta, it is the only such frame, and every frame but [DONE] carries
\* the one id and the one created of the stream.
C24_RoleFrameFirst ==
    Len(frames) > 0 =>
        /\ frames[1].obj.delta = {<<"role", "assistant">>, <<"content", "">>}
        /\ \A i \in 2..Len(frames) :
            IsJson(frames[i]) => \A p \in frames[i].obj.delta : p[1] # "role"
        /\ \A i \in 1..Len(frames) :
            IsJson(frames[i]) =>
                frames[i].obj.id = stream_id /\ frames[i].obj.created = created

(***************************************************************************)
(* Properties of concurrent process_stream calls.                          *)
(***************************************************************************)
IsPrefix(a, b) == Len(a) <= Len(b) /\ a = SubSeq(b, 1, Len(a))
Ended(r) == r.pc \in {"drain", "finally", "stop", "sentinel", "end"}
\* what call s has yielded and holds is its own: its chunks in its order, its
\* id, its task's failure, and it leaves its loop only when its own task is done
OwnOnly(s) ==
    LET r == streams[s]
        texts == TextsOf(r.produced)
        sent == ContentsOf(r.frames)
    IN /\ IsPrefix(sent, texts)
       /\ TextsOf(r.queue) = SubSeq(texts, Len(sent) + 1, Len(texts))
       /\ \A i \in 1..Len(r.frames) :
            IsJson(r.frames[i]) =>
                /\ r.frames[i].obj.id = ConcIds[s]
                /\ \A t \in DOMAIN streams \ {s} : r.frames[i].obj.id # streams[t].stream_id
       /\ \A i \in 1..Len(r.frames) :
            HasError(r.frames[i]) =>
                /\ r.task_state = "raised"
                /\ r.frames[i].obj.error.message = ErrorDict(r.task_exc).str
       /\ Ended(r) => done_of(r)
       /\ r.pc = "end" =>
            /\ sent = texts
            /\ Len(r.frames) = 1 + Len(texts) + (IF r.task_state = "raised" THEN 1 ELSE 0) + 2

RequestHeaders == IF kwargs.extra_headers = Missing THEN PyNone ELSE kwargs.extra_headers
\* the config headers overridden by the request's, without the sensitive names
ExpectedHeaders ==
    PyDict({it \in ItemsOf(RequestHeaders) : it[1] \notin SensitiveNames}
           \cup {it \in ItemsOf(extra_headers) :
                    it[1] \notin SensitiveNames /\ it[1] \notin NamesOf(RequestHeaders)})
HasConfigHeaders == extra_headers # PyNone /\ extra_headers.items # {}
PassedThrough ==
    /\ HasConfigHeaders => wrapped /\ llm_kwargs.others = kwargs.others
    /\ ~HasConfigHeaders => ~wrapped /\ llm_kwargs = kwargs

\* C21 as stated: a wrapper made with config headers always calls llm_func with
\* extra_headers equal to the merged, filtered headers.
C21_AlwaysPassesHeaders ==
    wpc = "done" =>
        /\ PassedThrough
        /\ HasConfigHeaders => llm_kwargs.extra_headers = ExpectedHeaders

\* C21, amended: a wrapper made with config headers calls llm_func with
\* extra_headers equal to the config headers overridden by the request's, minus
\* the sensitive ones, when that is not empty, and with no extra_headers argument
\* when it is empty; the other keyword arguments are passed unchanged; with no
\* config headers the function itself is returned and its arguments are the
\* caller's.
C21_WrapperHeaders ==
    wpc = "done" =>
        /\ PassedThrough
        /\ (HasConfigHeaders /\ ExpectedHeaders.items # {}) =>
                llm_kwargs.extra_headers = ExpectedHeaders
        /\ (HasConfigHeaders /\ ExpectedHeaders.items = {}) =>
                llm_kwargs.extra_headers = Missing
C21_Witness ==
    /\ wpc = "done"
    /\ wrapped
    /\ extra_headers = PyDict({<<"AUTHORIZATION", "v1">>, <<"X-Custom", "v1">>})
    /\ kwargs.extra_headers = PyDict({<<"Host", "v2">>, <<"X-Custom", "v2">>})
    /\ kwargs.others # {}
    /\ llm_kwargs = Kwargs(PyDict({<<"X-Custom", "v2">>}), kwargs.others)
\* nothing is left after filtering: llm_func gets no extra_headers at all
C21_WitnessEmpty ==
    /\ wpc = "done"
    /\ wrapped
    /\ extra_headers = PyDict({<<"AUTHORIZATION", "v1">>})
    /\ kwargs.extra_headers = Missing
    /\ llm_kwargs.extra_headers = Missing

(***************************************************************************)
(* replace_env_strings_recursive: the reference is a table of the leaves   *)
(* under each environment, read along every path of the tree.              *)
(***************************************************************************)
EnvA == Str(<<"e", "n", "v", ":", "A">>)
EnvB == Str(<<"e", "n", "v", ":", "B">>)
EnvOnly == Str(<<"e", "n", "v", ":">>)
EnvLeaves == {EnvA, EnvB, EnvOnly}
AIsV == {<<(<<"A">>), <<"v">>>>}
AIsEnvB == {<<(<<"A">>), <<"e", "n", "v", ":", "B">>>>, <<(<<"B">>), <<"w">>>>}

\* what a leaf must become under the current environment
ExpectedLeaf(l) ==
    IF l \notin EnvLeaves THEN l
    ELSE IF environ = AIsV /\ l = EnvA THEN Str(<<"v">>)
    ELSE IF environ = AIsEnvB /\ l = EnvA THEN Str(<<"e", "n", "v", ":", "B">>)
    ELSE IF environ = AIsEnvB /\ l = EnvB THEN Str(<<"w">>)
    ELSE Str(<<>>)

IsContainer(t) == t.type \in {"dict", "list"}
IndexName(i) == IF i = 1 THEN "#1" ELSE IF i = 2 THEN "#2" ELSE "#3"

\* the tree with every leaf blanked
RECURSIVE Shape(_)
Shape(t) ==
    IF t.type = "dict" THEN Dict({<<it[1], Shape(it[2])>> : it \in t.items})
    ELSE IF t.type = "list" THEN List([i \in 1..Len(t.items) |-> Shape(t.items[i])])
    ELSE [type |-> "leaf"]

\* the paths from the root to the leaves
RECURSIVE PathsOf(_)
PathsOf(t) ==
    IF t.type = "dict"
    THEN UNION {{<<it[1]>> \o q : q \in PathsOf(it[2])} : it \in t.items}
    ELSE IF t.type = "list"
    THEN UNION {{<<IndexName(i)>> \o q : q \in PathsOf(t.items[i])} : i \in 1..Len(t.items)}
    ELSE {<<>>}

RECURSIVE LeafAt(_, _)
LeafAt(t, path) ==
    IF path = <<>> THEN t
    ELSE IF t.type = "dict"
    THEN LeafAt((CHOOSE it \in t.items : it[1] = Head(path))[2], Tail(path))
    ELSE LeafAt(t.items[CHOOSE i \in 1..Len(t.items) : IndexName(i) = Head(path)], Tail(path))

NoEnvString(t) == \A path \in PathsOf(t) : LeafAt(t, path) \notin EnvLeaves

\* C22: replace_env_strings_recursive returns a tree equal to its input when
\* the input has no string leaf starting with "env:", so that a second
\* application changes nothing; otherwise the result has the shape of the
\* input, every "env:VAR" leaf at any depth of dicts and lists holds the
\* value of VAR or the empty string when VAR is unset, and every other leaf
\* is the leaf of the input.
C22_ReplacesEveryEnvLeaf ==
    /\ epc # "first" =>
          /\ Shape(replaced) = Shape(data)
          /\ \A path \in PathsOf(data) :
                LeafAt(replaced, path) = ExpectedLeaf(LeafAt(data, path))
          /\ NoEnvString(data) => replaced = data
    /\ epc = "done" /\ NoEnvString(data) => replaced_again = data

\* an "env:A" leaf and an unset "env:B" leaf in a list in a dict have been replaced
C22_Witness ==
    /\ epc = "done"
    /\ environ = AIsV
    /\ data = Dict({<<"k", List(<<EnvB, EnvA>>)>>})
    /\ replaced = Dict({<<"k", List(<<Str(<<>>), Str(<<"v">>)>>)>>})

\* a nested tree without "env:" leaves went through both calls unchanged
C22_WitnessUnchanged ==
    /\ epc = "done"
    /\ IsContainer(data)
    /\ \E path \in PathsOf(data) : Len(path) = MaxDepth
    /\ NoEnvString(data)
    /\ replaced_again = data

=============================================================================
